---- MODULE Spec2Model ----
(***************************************************************************)
(* A model of consolidate_project_sources.py: the file classifier          *)
(* (is_excluded_dir, is_excluded_file, is_text_file, is_sensitive_file,    *)
(* get_file_language), the tree builder, the walk of _process_files with   *)
(* its statistics, and the report written by consolidate.                  *)
(*                                                                         *)
(* Strings are sequences of one-character strings, so that the code's      *)
(* character-level operations (lstrip, suffix, regular expressions, key    *)
(* redaction) are computed, not assumed.                                   *)
(***************************************************************************)
EXTENDS Integers, Sequences, FiniteSets, TLC

(***************************************************************************)
(* Characters: code points (for sorted()) and str.lower().                 *)
(***************************************************************************)
CharCode ==
    ("\n" :> 10) @@ (" " :> 32) @@ ("#" :> 35) @@ ("*" :> 42) @@ ("-" :> 45)
    @@ ("." :> 46) @@ ("/" :> 47) @@ ("0" :> 48) @@ ("1" :> 49)
    @@ ("2" :> 50) @@ ("3" :> 51) @@ ("4" :> 52) @@ ("5" :> 53)
    @@ ("6" :> 54) @@ ("7" :> 55) @@ ("8" :> 56) @@ ("9" :> 57)
    @@ (":" :> 58) @@ ("=" :> 61) @@ ("A" :> 65) @@ ("B" :> 66)
    @@ ("C" :> 67) @@ ("D" :> 68) @@ ("E" :> 69) @@ ("F" :> 70)
    @@ ("G" :> 71) @@ ("H" :> 72) @@ ("I" :> 73) @@ ("J" :> 74)
    @@ ("K" :> 75) @@ ("L" :> 76) @@ ("M" :> 77) @@ ("N" :> 78)
    @@ ("O" :> 79) @@ ("P" :> 80) @@ ("Q" :> 81) @@ ("R" :> 82)
    @@ ("S" :> 83) @@ ("T" :> 84) @@ ("U" :> 85) @@ ("V" :> 86)
    @@ ("W" :> 87) @@ ("X" :> 88) @@ ("Y" :> 89) @@ ("Z" :> 90)
    @@ ("_" :> 95) @@ ("a" :> 97) @@ ("b" :> 98) @@ ("c" :> 99)
    @@ ("d" :> 100) @@ ("e" :> 101) @@ ("f" :> 102) @@ ("g" :> 103)
    @@ ("h" :> 104) @@ ("i" :> 105) @@ ("j" :> 106) @@ ("k" :> 107)
    @@ ("l" :> 108) @@ ("m" :> 109) @@ ("n" :> 110) @@ ("o" :> 111)
    @@ ("p" :> 112) @@ ("q" :> 113) @@ ("r" :> 114) @@ ("s" :> 115)
    @@ ("t" :> 116) @@ ("u" :> 117) @@ ("v" :> 118) @@ ("w" :> 119)
    @@ ("x" :> 120) @@ ("y" :> 121) @@ ("z" :> 122)

UpperToLower ==
    ("A" :> "a") @@ ("B" :> "b") @@ ("C" :> "c") @@ ("D" :> "d")
    @@ ("E" :> "e") @@ ("F" :> "f") @@ ("G" :> "g") @@ ("H" :> "h")
    @@ ("I" :> "i") @@ ("J" :> "j") @@ ("K" :> "k") @@ ("L" :> "l")
    @@ ("M" :> "m") @@ ("N" :> "n") @@ ("O" :> "o") @@ ("P" :> "p")
    @@ ("Q" :> "q") @@ ("R" :> "r") @@ ("S" :> "s") @@ ("T" :> "t")
    @@ ("U" :> "u") @@ ("V" :> "v") @@ ("W" :> "w") @@ ("X" :> "x")
    @@ ("Y" :> "y") @@ ("Z" :> "z")

(***************************************************************************)
(* The module-level tables of the script.                                  *)
(***************************************************************************)
EXCLUDE_DIRS ==
    { <<".", "v", "e", "n", "v">>,
      <<"n", "o", "d", "e", "_", "m", "o", "d", "u", "l", "e", "s">>,
      <<"_", "_", "p", "y", "c", "a", "c", "h", "e", "_", "_">>,
      <<".", "n", "e", "x", "t">>,
      <<"v", "e", "n", "v">>,
      <<"e", "n", "v">>,
      <<".", "g", "i", "t">>,
      <<".", "v", "s", "c", "o", "d", "e">>,
      <<".", "i", "d", "e", "a">>,
      <<"d", "i", "s", "t">>,
      <<"b", "u", "i", "l", "d">>,
      <<"c", "o", "v", "e", "r", "a", "g", "e">>,
      <<".", "p", "y", "t", "e", "s", "t", "_", "c", "a", "c", "h", "e">>,
      <<".", "m", "y", "p", "y", "_", "c", "a", "c", "h", "e">>,
      <<".", "r", "u", "f", "f", "_", "c", "a", "c", "h", "e">>,
      <<".", "t", "o", "x">>,
      <<".", "e", "g", "g", "s">>,
      <<"p", "o", "s", "t", "g", "r", "e", "s", "_", "d", "a", "t", "a">>,
      <<"m", "i", "g", "r", "a", "t", "i", "o", "n", "s", "/", "_", "_", "p", "y", "c", "a", "c", "h", "e", "_", "_">>,
      <<"p", "l", "a", "y", "w", "r", "i", "g", "h", "t", "-", "r", "e", "p", "o", "r", "t">>,
      <<"t", "e", "s", "t", "-", "r", "e", "s", "u", "l", "t", "s">>,
      <<".", "t", "u", "r", "b", "o">>,
      <<"t", "e", "m", "p">>,
      <<"t", "m", "p">> }

EXCLUDE_FILES ==
    { <<".", "D", "S", "_", "S", "t", "o", "r", "e">>,
      <<"T", "h", "u", "m", "b", "s", ".", "d", "b">>,
      <<"*", ".", "p", "y", "c">>,
      <<"*", ".", "p", "y", "o">>,
      <<"*", ".", "p", "y", "d">>,
      <<"*", ".", "s", "o">>,
      <<"*", ".", "d", "l", "l">>,
      <<"*", ".", "d", "y", "l", "i", "b">>,
      <<"*", ".", "e", "x", "e">>,
      <<"*", ".", "l", "o", "g">>,
      <<"*", ".", "p", "i", "d">>,
      <<"*", ".", "s", "e", "e", "d">>,
      <<"*", ".", "p", "i", "d", ".", "l", "o", "c", "k">>,
      <<"p", "a", "c", "k", "a", "g", "e", "-", "l", "o", "c", "k", ".", "j", "s", "o", "n">>,
      <<"y", "a", "r", "n", ".", "l", "o", "c", "k">>,
      <<"p", "n", "p", "m", "-", "l", "o", "c", "k", ".", "y", "a", "m", "l">>,
      <<"*", ".", "m", "i", "n", ".", "j", "s">>,
      <<"*", ".", "m", "i", "n", ".", "c", "s", "s">>,
      <<"*", ".", "m", "a", "p">> }

EXCLUDE_EXTENSIONS ==
    { <<".", "p", "y", "c">>,
      <<".", "p", "y", "o">>,
      <<".", "p", "y", "d">>,
      <<".", "s", "o">>,
      <<".", "d", "l", "l">>,
      <<".", "d", "y", "l", "i", "b">>,
      <<".", "e", "x", "e">>,
      <<".", "o">>,
      <<".", "a">>,
      <<".", "l", "i", "b">>,
      <<".", "o", "b", "j">>,
      <<".", "c", "l", "a", "s", "s">>,
      <<".", "j", "a", "r">>,
      <<".", "w", "a", "r">>,
      <<".", "p", "n", "g">>,
      <<".", "j", "p", "g">>,
      <<".", "j", "p", "e", "g">>,
      <<".", "g", "i", "f">>,
      <<".", "i", "c", "o">>,
      <<".", "s", "v", "g">>,
      <<".", "w", "e", "b", "p">>,
      <<".", "m", "p", "4">>,
      <<".", "a", "v", "i">>,
      <<".", "m", "o", "v">>,
      <<".", "w", "m", "v">>,
      <<".", "f", "l", "v">>,
      <<".", "w", "e", "b", "m">>,
      <<".", "m", "p", "3">>,
      <<".", "w", "a", "v">>,
      <<".", "o", "g", "g">>,
      <<".", "f", "l", "a", "c">>,
      <<".", "z", "i", "p">>,
      <<".", "t", "a", "r">>,
      <<".", "g", "z">>,
      <<".", "b", "z", "2">>,
      <<".", "7", "z">>,
      <<".", "r", "a", "r">>,
      <<".", "p", "d", "f">>,
      <<".", "d", "o", "c">>,
      <<".", "d", "o", "c", "x">>,
      <<".", "x", "l", "s">>,
      <<".", "x", "l", "s", "x">>,
      <<".", "w", "o", "f", "f">>,
      <<".", "w", "o", "f", "f", "2">>,
      <<".", "t", "t", "f">>,
      <<".", "e", "o", "t">>,
      <<".", "o", "t", "f">>,
      <<".", "l", "o", "c", "k">>,
      <<".", "m", "a", "p">> }

FORCE_INCLUDE_FILES ==
    { <<"D", "o", "c", "k", "e", "r", "f", "i", "l", "e">>,
      <<"d", "o", "c", "k", "e", "r", "-", "c", "o", "m", "p", "o", "s", "e", ".", "y", "m", "l">>,
      <<".", "d", "o", "c", "k", "e", "r", "i", "g", "n", "o", "r", "e">>,
      <<".", "g", "i", "t", "i", "g", "n", "o", "r", "e">>,
      <<".", "g", "i", "t", "a", "t", "t", "r", "i", "b", "u", "t", "e", "s">>,
      <<"r", "e", "q", "u", "i", "r", "e", "m", "e", "n", "t", "s", ".", "t", "x", "t">>,
      <<"p", "a", "c", "k", "a", "g", "e", ".", "j", "s", "o", "n">>,
      <<"t", "s", "c", "o", "n", "f", "i", "g", ".", "j", "s", "o", "n">>,
      <<"R", "E", "A", "D", "M", "E", ".", "m", "d">>,
      <<"L", "I", "C", "E", "N", "S", "E">>,
      <<"C", "H", "A", "N", "G", "E", "L", "O", "G", ".", "m", "d">> }

MAX_FILE_SIZE ==
    10000000

\* The extension set local to is_text_file.
text_extensions ==
    { <<".", "t", "x", "t">>,
      <<".", "m", "d">>,
      <<".", "r", "s", "t">>,
      <<".", "j", "s", "o", "n">>,
      <<".", "y", "a", "m", "l">>,
      <<".", "y", "m", "l">>,
      <<".", "t", "o", "m", "l">>,
      <<".", "i", "n", "i">>,
      <<".", "c", "f", "g">>,
      <<".", "c", "o", "n", "f">>,
      <<".", "c", "o", "n", "f", "i", "g">>,
      <<".", "p", "y">>,
      <<".", "j", "s">>,
      <<".", "t", "s">>,
      <<".", "j", "s", "x">>,
      <<".", "t", "s", "x">>,
      <<".", "c", "s", "s">>,
      <<".", "s", "c", "s", "s">>,
      <<".", "h", "t", "m", "l">>,
      <<".", "x", "m", "l">>,
      <<".", "s", "q", "l">>,
      <<".", "s", "h">>,
      <<".", "b", "a", "s", "h">>,
      <<".", "z", "s", "h">>,
      <<".", "g", "o">>,
      <<".", "r", "s">>,
      <<".", "j", "a", "v", "a">>,
      <<".", "c">>,
      <<".", "c", "p", "p">>,
      <<".", "h">>,
      <<".", "h", "p", "p">>,
      <<".", "r", "b">>,
      <<".", "p", "h", "p">>,
      <<".", "l", "u", "a">>,
      <<".", "p", "l">>,
      <<".", "r">>,
      <<".", "m">>,
      <<".", "v", "i", "m">>,
      <<".", "e", "l">>,
      <<".", "c", "l", "j">>,
      <<".", "e", "x">>,
      <<".", "e", "x", "s">>,
      <<".", "D", "o", "c", "k", "e", "r", "f", "i", "l", "e">>,
      <<".", "g", "i", "t", "i", "g", "n", "o", "r", "e">>,
      <<".", "d", "o", "c", "k", "e", "r", "i", "g", "n", "o", "r", "e">> }

\* The table local to get_file_language.
language_map ==
    (<<".", "p", "y">> :> "Python")
    @@ (<<".", "j", "s">> :> "JavaScript")
    @@ (<<".", "t", "s">> :> "TypeScript")
    @@ (<<".", "j", "s", "x">> :> "React JSX")
    @@ (<<".", "t", "s", "x">> :> "React TSX")
    @@ (<<".", "c", "s", "s">> :> "CSS")
    @@ (<<".", "s", "c", "s", "s">> :> "SCSS")
    @@ (<<".", "h", "t", "m", "l">> :> "HTML")
    @@ (<<".", "j", "s", "o", "n">> :> "JSON")
    @@ (<<".", "y", "a", "m", "l">> :> "YAML")
    @@ (<<".", "y", "m", "l">> :> "YAML")
    @@ (<<".", "t", "o", "m", "l">> :> "TOML")
    @@ (<<".", "m", "d">> :> "Markdown")
    @@ (<<".", "s", "q", "l">> :> "SQL")
    @@ (<<".", "s", "h">> :> "Shell")
    @@ (<<".", "b", "a", "s", "h">> :> "Bash")
    @@ (<<".", "g", "o">> :> "Go")
    @@ (<<".", "r", "s">> :> "Rust")
    @@ (<<".", "j", "a", "v", "a">> :> "Java")
    @@ (<<".", "c">> :> "C")
    @@ (<<".", "c", "p", "p">> :> "C++")
    @@ (<<".", "h">> :> "C Header")
    @@ (<<".", "h", "p", "p">> :> "C++ Header")

\* The extensions mimetypes.guess_type maps to a text/... type (the built-in table).
mime_text_types ==
    { <<".", "b", "a", "t">>,
      <<".", "c">>,
      <<".", "c", "s", "s">>,
      <<".", "c", "s", "v">>,
      <<".", "e", "t", "x">>,
      <<".", "h">>,
      <<".", "h", "t", "m">>,
      <<".", "h", "t", "m", "l">>,
      <<".", "k", "s", "h">>,
      <<".", "n", "3">>,
      <<".", "p", "l">>,
      <<".", "p", "y">>,
      <<".", "r", "t", "x">>,
      <<".", "s", "g", "m">>,
      <<".", "s", "g", "m", "l">>,
      <<".", "s", "r", "t">>,
      <<".", "t", "s", "v">>,
      <<".", "t", "x", "t">>,
      <<".", "v", "c", "f">>,
      <<".", "v", "t", "t">>,
      <<".", "x", "m", "l">> }

(***************************************************************************)
(* String operations of Python used by the classifier.                     *)
(***************************************************************************)
Lower(c) ==
    IF c \in DOMAIN UpperToLower THEN UpperToLower[c] ELSE c

\* str.lower()
LowerStr(s) ==
    [i \in 1..Len(s) |-> Lower(s[i])]

\* str.lstrip(c)
RECURSIVE lstrip(_, _)
lstrip(s, c) ==
    IF s # <<>> /\ Head(s) = c THEN lstrip(Tail(s), c) ELSE s

IsSpace(c) ==
    c \in {" ", "\n"}

\* str.strip(): leading and trailing whitespace removed
RECURSIVE strip(_)
strip(s) ==
    IF s = <<>> THEN s
    ELSE IF IsSpace(Head(s)) THEN strip(Tail(s))
    ELSE IF IsSpace(s[Len(s)]) THEN strip(SubSeq(s, 1, Len(s) - 1))
    ELSE s

\* str.rfind(c), as a 1-based index; 0 when c does not occur
rfind(s, c) ==
    LET I == {i \in 1..Len(s) : s[i] = c}
    IN  IF I = {} THEN 0 ELSE CHOOSE i \in I : \A j \in I : j <= i

\* str.find(c), as a 1-based index; 0 when c does not occur
find(s, c) ==
    LET I == {i \in 1..Len(s) : s[i] = c}
    IN  IF I = {} THEN 0 ELSE CHOOSE i \in I : \A j \in I : i <= j

\* PurePath.suffix of a base name: from the last dot, unless that dot is the
\* first or the last character of the name
suffix(name) ==
    LET i == rfind(name, ".")
    IN  IF 1 < i /\ i < Len(name) THEN SubSeq(name, i, Len(name)) ELSE <<>>

\* a < b in Python's string order (by code point), as sorted() compares names
RECURSIVE StrLess(_, _)
StrLess(a, b) ==
    IF b = <<>> THEN FALSE
    ELSE IF a = <<>> THEN TRUE
    ELSE IF Head(a) = Head(b) THEN StrLess(Tail(a), Tail(b))
    ELSE CharCode[Head(a)] < CharCode[Head(b)]

(***************************************************************************)
(* Regular expressions, as far as the script's patterns use them: a        *)
(* pattern is a sequence of tokens, re_match_at is the backtracking        *)
(* matcher from position j.                                                *)
(*   lit c    the character c                                              *)
(*   dotstar  .*   any run of characters other than newline                *)
(*   azplus   [a-z]+                                                       *)
(*   opt sub  (sub)?                                                       *)
(*   eol      $    the end of the string, or just before a final newline   *)
(***************************************************************************)
Lit(c) ==
    [t |-> "lit", c |-> c, sub |-> <<>>]

Lits(s) ==
    [i \in 1..Len(s) |-> Lit(s[i])]

DotStar ==
    [t |-> "dotstar", c |-> "", sub |-> <<>>]

AzPlus ==
    [t |-> "azplus", c |-> "", sub |-> <<>>]

Eol ==
    [t |-> "eol", c |-> "", sub |-> <<>>]

Opt(sub) ==
    [t |-> "opt", c |-> "", sub |-> sub]

\* c is matched by [a-z]
IsAZ(c) ==
    c \in DOMAIN CharCode /\ CharCode[c] >= CharCode["a"]
                          /\ CharCode[c] <= CharCode["z"]

\* the tokens re[k..] match s from position j on
RECURSIVE re_match_at(_, _, _, _)
re_match_at(re, k, s, j) ==
    IF k > Len(re) THEN TRUE
    ELSE
      LET tok == re[k]
          n == Len(s)
      IN  CASE tok.t = "lit" ->
                 /\ j <= n
                 /\ s[j] = tok.c
                 /\ re_match_at(re, k + 1, s, j + 1)
            [] tok.t = "dotstar" ->
                 \E m \in j..(n + 1) :
                    /\ re_match_at(re, k + 1, s, m)
                    /\ \A i \in j..(m - 1) : s[i] # "\n"
            [] tok.t = "azplus" ->
                 \E m \in (j + 1)..(n + 1) :
                    /\ re_match_at(re, k + 1, s, m)
                    /\ \A i \in j..(m - 1) : IsAZ(s[i])
            [] tok.t = "opt" ->
                 \/ re_match_at(tok.sub \o SubSeq(re, k + 1, Len(re)), 1, s, j)
                 \/ re_match_at(re, k + 1, s, j)
            [] tok.t = "eol" ->
                 /\ j = n + 1 \/ (j = n /\ s[n] = "\n")
                 /\ re_match_at(re, k + 1, s, j)

\* re.match(re, s): a match starting at the first character
re_match(re, s) ==
    re_match_at(re, 1, s, 1)

\* re.search(re, s, re.IGNORECASE): a match starting anywhere, letters
\* compared without regard to case (the patterns are in lower case)
re_search_ignorecase(re, s) ==
    \E folded \in {LowerStr(s)} :
        \E j \in 1..(Len(folded) + 1) : re_match_at(re, 1, folded, j)

SENSITIVE_PATTERNS ==
    << Lits(<<".", "e", "n", "v">>) \o <<Opt(<<Lit(".")>> \o <<AzPlus>>)>> \o <<Eol>>,
       <<DotStar>> \o Lits(<<".", "k", "e", "y">>) \o <<Eol>>,
       <<DotStar>> \o Lits(<<".", "p", "e", "m">>) \o <<Eol>>,
       <<DotStar>> \o Lits(<<".", "c", "r", "t">>) \o <<Eol>>,
       <<DotStar>> \o Lits(<<".", "c", "e", "r", "t">>) \o <<Eol>>,
       <<DotStar>> \o Lits(<<"s", "e", "c", "r", "e", "t", "s">>) \o <<DotStar>>,
       <<DotStar>> \o Lits(<<"c", "r", "e", "d", "e", "n", "t", "i", "a", "l", "s">>) \o <<DotStar>>,
       <<DotStar>> \o Lits(<<"p", "a", "s", "s", "w", "o", "r", "d">>) \o <<DotStar>> >>

(***************************************************************************)
(* The classifier.  A file on disk is a record f:                          *)
(*   size     st_size                                                      *)
(*   stat_ok  os.stat of the path succeeds (FALSE: a dangling link, ...)   *)
(*   open_ok  open() for reading succeeds (FALSE: permission denied, ...)  *)
(*   decode   "ok": the bytes are UTF-8; "head": the first block is not;   *)
(*            "tail": the first block is, a later one is not               *)
(*   content  the text, a sequence of symbols ("\n" is the newline)        *)
(***************************************************************************)
\* is_excluded_dir, had it also excluded every dot-directory
is_excluded_dir_or_hidden(dir_name) ==
    LET normalized == lstrip(dir_name, ".")
    IN  \/ dir_name \in EXCLUDE_DIRS \/ normalized \in EXCLUDE_DIRS
        \/ (dir_name # <<>> /\ Head(dir_name) = ".")

is_excluded_dir(dir_name) ==
    LET normalized == lstrip(dir_name, ".")
    IN  dir_name \in EXCLUDE_DIRS \/ normalized \in EXCLUDE_DIRS

\* pattern.replace(".", r"\.").replace("*", ".*"), compiled: "*" becomes .*,
\* every other character of these patterns matches itself
glob_regex(pattern) ==
    [i \in 1..Len(pattern) |->
        IF pattern[i] = "*" THEN DotStar ELSE Lit(pattern[i])]

\* one turn of the loop over EXCLUDE_FILES
matches_exclude_pattern(name, pattern) ==
    IF "*" \in {pattern[i] : i \in 1..Len(pattern)}
    THEN \E regex \in {glob_regex(pattern)} : re_match(regex, name)
    ELSE name = pattern

\* posixpath.splitext(name)[1], which mimetypes.guess_type uses: from the last
\* dot, unless only dots precede it
splitext_ext(name) ==
    LET i == rfind(name, ".")
    IN  IF i > 0 /\ \E j \in 1..(i - 1) : name[j] # "."
        THEN SubSeq(name, i, Len(name))
        ELSE <<>>

splitext_root(name) ==
    SubSeq(name, 1, Len(name) - Len(splitext_ext(name)))

\* mimetypes.encodings_map: a compression suffix is stripped before the lookup
mime_encodings ==
    { <<".", "g", "z">>, <<".", "Z">>, <<".", "b", "z", "2">>, <<".", "x", "z">>, <<".", "b", "r">> }

\* mimetypes.guess_type(name)[0] starts with "text"
mime_is_text(name) ==
    LET e1 == splitext_ext(name)
        ext == IF e1 \in mime_encodings
               THEN splitext_ext(splitext_root(name))
               ELSE e1
    IN  ext \in mime_text_types \/ LowerStr(ext) \in mime_text_types

is_text_file(name, f) ==
    IF name \in FORCE_INCLUDE_FILES THEN TRUE
    ELSE IF mime_is_text(name) THEN TRUE
    ELSE IF LowerStr(suffix(name)) \in text_extensions THEN TRUE
    ELSE f.open_ok /\ f.decode # "head"

\* is_excluded_file, had it tested the size before the force-include set
is_excluded_file_size_first(name, file_size, f, max_size) ==
    IF file_size # <<>> /\ file_size[1] >= max_size
    THEN [excluded |-> TRUE, ret |-> "size", resolved |-> FALSE]
    ELSE IF name \in FORCE_INCLUDE_FILES
    THEN [excluded |-> FALSE, ret |-> "force", resolved |-> FALSE]
    ELSE IF LowerStr(suffix(name)) \in EXCLUDE_EXTENSIONS
    THEN [excluded |-> TRUE, ret |-> "extension", resolved |-> FALSE]
    ELSE IF \E pattern \in EXCLUDE_FILES : matches_exclude_pattern(name, pattern)
    THEN [excluded |-> TRUE, ret |-> "pattern", resolved |-> FALSE]
    ELSE IF file_size = <<>> /\ ~f.stat_ok
    THEN [excluded |-> TRUE, ret |-> "stat", resolved |-> TRUE]
    ELSE
      LET size == IF file_size = <<>> THEN f.size ELSE file_size[1]
          res == (file_size = <<>>)
      IN  IF size >= max_size
          THEN [excluded |-> TRUE, ret |-> "size", resolved |-> res]
          ELSE IF ~is_text_file(name, f)
          THEN [excluded |-> TRUE, ret |-> "binary", resolved |-> res]
          ELSE [excluded |-> FALSE, ret |-> "include", resolved |-> res]

\* is_excluded_file, had it compared the size with > instead of >=
is_excluded_file_above_only(name, file_size, f, max_size) ==
    IF name \in FORCE_INCLUDE_FILES
    THEN [excluded |-> FALSE, ret |-> "force", resolved |-> FALSE]
    ELSE IF LowerStr(suffix(name)) \in EXCLUDE_EXTENSIONS
    THEN [excluded |-> TRUE, ret |-> "extension", resolved |-> FALSE]
    ELSE IF \E pattern \in EXCLUDE_FILES : matches_exclude_pattern(name, pattern)
    THEN [excluded |-> TRUE, ret |-> "pattern", resolved |-> FALSE]
    ELSE IF file_size = <<>> /\ ~f.stat_ok
    THEN [excluded |-> TRUE, ret |-> "stat", resolved |-> TRUE]
    ELSE
      LET size == IF file_size = <<>> THEN f.size ELSE file_size[1]
          res == (file_size = <<>>)
      IN  IF size > max_size
          THEN [excluded |-> TRUE, ret |-> "size", resolved |-> res]
          ELSE IF ~is_text_file(name, f)
          THEN [excluded |-> TRUE, ret |-> "binary", resolved |-> res]
          ELSE [excluded |-> FALSE, ret |-> "include", resolved |-> res]

\* is_excluded_file, had it resolved the size before looking at the name
is_excluded_file_resolving_first(name, file_size, f, max_size) ==
    IF name \in FORCE_INCLUDE_FILES
    THEN [excluded |-> FALSE, ret |-> "force", resolved |-> FALSE]
    ELSE IF file_size = <<>> /\ ~f.stat_ok
    THEN [excluded |-> TRUE, ret |-> "stat", resolved |-> TRUE]
    ELSE
      LET size == IF file_size = <<>> THEN f.size ELSE file_size[1]
          res == (file_size = <<>>)
      IN  IF LowerStr(suffix(name)) \in EXCLUDE_EXTENSIONS
          THEN [excluded |-> TRUE, ret |-> "extension", resolved |-> res]
          ELSE IF \E pattern \in EXCLUDE_FILES :
                      matches_exclude_pattern(name, pattern)
          THEN [excluded |-> TRUE, ret |-> "pattern", resolved |-> res]
          ELSE IF size >= max_size
          THEN [excluded |-> TRUE, ret |-> "size", resolved |-> res]
          ELSE IF ~is_text_file(name, f)
          THEN [excluded |-> TRUE, ret |-> "binary", resolved |-> res]
          ELSE [excluded |-> FALSE, ret |-> "include", resolved |-> res]

\* is_excluded_file(file_path, file_size): file_size is <<>> for None and <<n>>
\* for a size.  The result tells which return statement decided (ret) and
\* whether the call resolved the size itself (resolved).
is_excluded_file(name, file_size, f, max_size) ==
    IF name \in FORCE_INCLUDE_FILES
    THEN [excluded |-> FALSE, ret |-> "force", resolved |-> FALSE]
    ELSE IF LowerStr(suffix(name)) \in EXCLUDE_EXTENSIONS
    THEN [excluded |-> TRUE, ret |-> "extension", resolved |-> FALSE]
    ELSE IF \E pattern \in EXCLUDE_FILES : matches_exclude_pattern(name, pattern)
    THEN [excluded |-> TRUE, ret |-> "pattern", resolved |-> FALSE]
    ELSE IF file_size = <<>> /\ ~f.stat_ok
    THEN [excluded |-> TRUE, ret |-> "stat", resolved |-> TRUE]
    ELSE
      LET size == IF file_size = <<>> THEN f.size ELSE file_size[1]
          res == (file_size = <<>>)
      IN  IF size >= max_size
          THEN [excluded |-> TRUE, ret |-> "size", resolved |-> res]
          ELSE IF ~is_text_file(name, f)
          THEN [excluded |-> TRUE, ret |-> "binary", resolved |-> res]
          ELSE [excluded |-> FALSE, ret |-> "include", resolved |-> res]

\* is_sensitive_file, had it used re.match (anchored at the start of the path)
is_sensitive_file_anchored(file_str) ==
    \E p \in 1..Len(SENSITIVE_PATTERNS) :
        \E folded \in {LowerStr(file_str)} :
            re_match_at(SENSITIVE_PATTERNS[p], 1, folded, 1)

\* is_sensitive_file, had it searched without re.IGNORECASE
is_sensitive_file_case_sensitive(file_str) ==
    \E p \in 1..Len(SENSITIVE_PATTERNS) :
        \E j \in 1..(Len(file_str) + 1) :
            re_match_at(SENSITIVE_PATTERNS[p], 1, file_str, j)

is_sensitive_file(file_str) ==
    \E p \in 1..Len(SENSITIVE_PATTERNS) :
        re_search_ignorecase(SENSITIVE_PATTERNS[p], file_str)

get_file_language(name) ==
    LET ext == LowerStr(suffix(name))
    IN  IF name = <<"D", "o", "c", "k", "e", "r", "f", "i", "l", "e">> THEN "Docker"
        ELSE IF ext \in DOMAIN language_map THEN language_map[ext]
        ELSE "Text"

(***************************************************************************)
(* The project tree the runs work on.  The directories and the candidate   *)
(* files are fixed; which candidates exist, and with what size, content    *)
(* and access faults, is chosen at the start.  Directory 1 is the project  *)
(* root; the order of DIRS is the order in which the file system           *)
(* enumerates directories (os.walk does not sort them).                    *)
(***************************************************************************)
ROOT_PATH ==
    <<"/", "w">>

DIRS ==
    << [parent |-> 0, name |-> <<"w">>],
       [parent |-> 1, name |-> <<".", "g", "i", "t">>],
       [parent |-> 1, name |-> <<".", "g", "i", "t", "h", "u", "b">>],
       [parent |-> 3, name |-> <<"w", "o", "r", "k", "f", "l", "o", "w", "s">>],
       [parent |-> 1, name |-> <<"n", "o", "d", "e", "_", "m", "o", "d", "u", "l", "e", "s">>],
       [parent |-> 5, name |-> <<"l", "i", "b">>],
       [parent |-> 1, name |-> <<"s", "r", "c">>] >>

FILES ==
    << [dir |-> 1, name |-> <<".", "e", "n", "v">>],
       [dir |-> 1, name |-> <<"R", "E", "A", "D", "M", "E", ".", "m", "d">>],
       [dir |-> 1, name |-> <<"a", "p", "p", ".", "p", "y">>],
       [dir |-> 1, name |-> <<"c", "o", "n", "s", "o", "l", "i", "d", "a", "t", "e", "d", ".", "t", "x", "t">>],
       [dir |-> 1, name |-> <<"d", "a", "t", "a", ".", "c", "s", "v">>],
       [dir |-> 1, name |-> <<"c", "o", "n", "s", "o", "l", "i", "d", "a", "t", "e", "_", "p", "r", "o", "j", "e", "c", "t", "_", "s", "o", "u", "r", "c", "e", "s", ".", "p", "y">>],
       [dir |-> 2, name |-> <<"c", "o", "n", "f", "i", "g">>],
       [dir |-> 4, name |-> <<"c", "i", ".", "y", "m", "l">>],
       [dir |-> 5, name |-> <<"r", "e", "a", "c", "t", ".", "j", "s">>],
       [dir |-> 6, name |-> <<"i", "n", "d", "e", "x", ".", "j", "s">>],
       [dir |-> 7, name |-> <<"s", "e", "c", "r", "e", "t", "s", ".", "l", "o", "g">>],
       [dir |-> 7, name |-> <<"l", "i", "n", "k", ".", "p", "y">>],
       [dir |-> 7, name |-> <<"s", "e", "c", "r", "e", "t", "s", ".", "j", "s", "o", "n">>],
       [dir |-> 1, name |-> <<"w", "_", "2", "0", "2", "5", "0", "1", "0", "1", "_", "m", "e", "r", "g", "e", "d", "_", "s", "o", "u", "r", "c", "e", "s", ".", "t", "x", "t">>],
       [dir |-> 1, name |-> <<".", "e", "n", "v", ".", "p", "r", "o", "d", "u", "c", "t", "i", "o", "n", ".", "l", "o", "c", "a", "l">>] >>

DirIds ==
    1..Len(DIRS)

FileIds ==
    1..Len(FILES)

\* the file the report is written to: output_file, inside the root
OUTPUT_FILE ==
    4

\* Path(__file__).name, the script's own file name
SCRIPT_NAME ==
    <<"c", "o", "n", "s", "o", "l", "i", "d", "a", "t", "e", "_", "p", "r", "o", "j", "e", "c", "t", "_", "s", "o", "u", "r", "c", "e", "s", ".", "p", "y">>

\* the path of a directory relative to the root, as a string
RECURSIVE DirRel(_)
DirRel(d) ==
    IF d = 1 THEN <<>>
    ELSE IF DIRS[d].parent = 1 THEN DIRS[d].name
    ELSE DirRel(DIRS[d].parent) \o <<"/">> \o DIRS[d].name

\* file_path.relative_to(self.project_root), as a string
RelPath(i) ==
    IF FILES[i].dir = 1 THEN FILES[i].name
    ELSE DirRel(FILES[i].dir) \o <<"/">> \o FILES[i].name

\* str(file_path): the root's path, then the relative path
PathStr(i) ==
    ROOT_PATH \o <<"/">> \o RelPath(i)

\* d is dir or lies beneath it
RECURSIVE Beneath(_, _)
Beneath(d, dir) ==
    IF d = dir THEN TRUE
    ELSE IF d = 1 THEN FALSE
    ELSE Beneath(DIRS[d].parent, dir)

Absent ==
    [present |-> FALSE, size |-> 0, stat_ok |-> FALSE, open_ok |-> FALSE,
     decode |-> "ok", content |-> <<>>]

\* a readable UTF-8 text file of the given size and content
TextFile(size, content) ==
    [present |-> TRUE, size |-> size, stat_ok |-> TRUE, open_ok |-> TRUE,
     decode |-> "ok", content |-> content]

(***************************************************************************)
(* analyze_sensitive_file: the metadata of a sensitive file and, for a     *)
(* dotenv file, its redacted key names.                                    *)
(***************************************************************************)
\* s.split("\n")
RECURSIVE split_lines(_)
split_lines(s) ==
    LET i == find(s, "\n")
    IN  IF i = 0 THEN <<s>>
        ELSE <<SubSeq(s, 1, i - 1)>> \o split_lines(SubSeq(s, i + 1, Len(s)))

\* f.readlines(), each line without its newline (strip() drops it anyway):
\* no empty line follows a final newline
readlines(content) ==
    LET parts == split_lines(content)
    IN  IF parts[Len(parts)] = <<>>
        THEN SubSeq(parts, 1, Len(parts) - 1)
        ELSE parts

ELLIPSIS ==
    <<".", ".", ".">>

EXISTS_MARKER ==
    <<"=", "{", "E", "x", "i", "s", "t", "s", "}">>

\* redact_key, had it shortened keys of 8 characters too
redact_key_from_8(key) ==
    IF Len(key) >= 8
    THEN SubSeq(key, 1, 4) \o ELLIPSIS \o SubSeq(key, Len(key) - 1, Len(key))
         \o EXISTS_MARKER
    ELSE key \o EXISTS_MARKER

\* the f-strings of lines 546-549
redact_key(key) ==
    IF Len(key) > 8
    THEN SubSeq(key, 1, 4) \o ELLIPSIS \o SubSeq(key, Len(key) - 1, Len(key))
         \o EXISTS_MARKER
    ELSE key \o EXISTS_MARKER

\* env_line_entry, had it taken the whole line for the key
env_line_entry_whole_line(raw) ==
    LET line == strip(raw)
    IN  IF line # <<>> /\ Head(line) # "#" /\ find(line, "=") > 0
        THEN <<redact_key(line)>>
        ELSE <<>>

\* one turn of the loop over the lines: the entries the line adds to keys
env_line_entry(raw) ==
    LET line == strip(raw)
    IN  IF line # <<>> /\ Head(line) # "#" /\ find(line, "=") > 0
        THEN <<redact_key(strip(SubSeq(line, 1, find(line, "=") - 1)))>>
        ELSE <<>>

RECURSIVE env_keys(_)
env_keys(lines) ==
    IF lines = <<>> THEN <<>>
    ELSE env_line_entry(Head(lines)) \o env_keys(Tail(lines))

\* str.startswith
startswith(s, prefix) ==
    Len(s) >= Len(prefix) /\ SubSeq(s, 1, Len(prefix)) = prefix

UNABLE_TO_READ ==
    <<"<Unable to read>">>

\* analyze_sensitive_file(file_path): raised names the exception that leaves
\* the function ("none": it returns info); has_keys is ("keys" in info)
analyze_sensitive_file(name, f, list_env_keys) ==
    IF ~f.stat_ok
    THEN [raised |-> "OSError", has_keys |-> FALSE, keys |-> <<>>]
    ELSE IF startswith(name, <<".", "e", "n", "v">>) /\ list_env_keys
    THEN IF ~f.open_ok
         THEN [raised |-> "none", has_keys |-> TRUE, keys |-> <<UNABLE_TO_READ>>]
         ELSE IF f.decode # "ok"
         THEN [raised |-> "UnicodeDecodeError", has_keys |-> FALSE, keys |-> <<>>]
         ELSE [raised |-> "none", has_keys |-> TRUE,
               keys |-> env_keys(readlines(f.content))]
    ELSE [raised |-> "none", has_keys |-> FALSE, keys |-> <<>>]

(***************************************************************************)
(* The candidate files' variants.                                          *)
(***************************************************************************)
ENV_SECRET ==
    <<"S", "E", "C", "R", "E", "T", "=", "1", "2", "3">>

ENV_LONG ==
    <<"D", "A", "T", "A", "B", "A", "S", "E", "_", "P", "A", "S", "S", "W", "O", "R", "D", "_", "L", "O", "N", "G", "=", "s", "u", "p", "e", "r", "s", "e", "c", "r", "e", "t", "\n", "#", "x", "=", "1", "\n", " ", "A", "B", " ", "=", " ", "c", "=", "d", "\n">>

\* .env: absent; the fixture's; one with a long key, a comment and a padded
\* key; one whose later bytes are not UTF-8
EnvVariants ==
    { Absent,
      TextFile(Len(ENV_SECRET), ENV_SECRET),
      TextFile(Len(ENV_LONG), ENV_LONG),
      [TextFile(9000, ENV_SECRET) EXCEPT !.decode = "tail"] }

\* README.md (force-included): the fixture's; one at the size limit
ReadmeVariants ==
    { TextFile(15, <<"This is a test.">>),
      TextFile(MAX_FILE_SIZE, <<"This is a test.">>) }

\* app.py: the fixture's; one that cannot be opened; one that is not UTF-8
AppVariants ==
    { TextFile(14, <<"print(hello)">>),
      [TextFile(14, <<"print(hello)">>) EXCEPT !.open_ok = FALSE],
      [TextFile(14, <<"print(hello)">>) EXCEPT !.decode = "head"] }

\* the values of --max-file-size: the default and a custom one
ArgMaxFileSizes ==
    { MAX_FILE_SIZE, 100 }

\* data.csv: absent, or of a size at or just below one of the limits
DataVariants ==
    { Absent }
    \cup { TextFile(n, <<"a,b", "\n", "1,2", "\n">>) :
             n \in { 100, MAX_FILE_SIZE - 1, MAX_FILE_SIZE } }

\* a copy of the script in the root
ScriptVariants ==
    { Absent, TextFile(10, <<"import os", "\n">>) }

\* a dangling link: stat and open fail
DanglingLink ==
    [present |-> TRUE, size |-> 0, stat_ok |-> FALSE, open_ok |-> FALSE,
     decode |-> "ok", content |-> <<>>]

\* src/secrets.log, src/link.py, src/secrets.json
SrcVariants ==
    { <<Absent, Absent, Absent>>,
      <<TextFile(10, <<"token=abc", "\n">>), Absent,
        TextFile(12, <<"{", "\n", "}", "\n">>)>>,
      <<Absent, DanglingLink, Absent>>,
      <<TextFile(10, <<"token=abc", "\n">>), DanglingLink,
        TextFile(12, <<"{", "\n", "}", "\n">>)>> }

\* the tree of the test fixture dummy_project (conftest.py), after git init
FixtureTree ==
    << TextFile(Len(ENV_SECRET), ENV_SECRET),
       TextFile(15, <<"This is a test.">>),
       TextFile(14, <<"print(hello)">>),
       Absent,
       Absent,
       Absent,
       TextFile(20, <<"[core]", "\n">>),
       TextFile(9, <<"name: CI", "\n">>),
       TextFile(13, <<"// react mock">>),
       TextFile(12, <<"// lib index">>),
       Absent,
       Absent,
       Absent,
       Absent,
       Absent >>

\* the report an earlier run left in the root under the default name
OldArtifact ==
    TextFile(11, <<"old report", "\n">>)

\* a dotenv file of a deployment stage, .env.production.local
STAGE_ENV ==
    <<"A", "P", "I", "_", "T", "O", "K", "E", "N", "=", "a", "b", "c", "1", "2", "3", "\n">>

StageDotenv ==
    TextFile(Len(STAGE_ENV), STAGE_ENV)

\* the pattern of the fallback in _process_files, r".*_merged_sources.*\.txt$"
ARTIFACT_NAME_PATTERN ==
    <<DotStar>> \o Lits(<<"_", "m", "e", "r", "g", "e", "d", "_", "s", "o", "u", "r", "c", "e", "s">>) \o <<DotStar>>
    \o Lits(<<".", "t", "x", "t">>) \o <<Eol>>

\* the number of runs of the tool on the tree
MaxRuns ==
    2

(***************************************************************************)
(* main's surroundings: the ignore file that ensure_gitignore_entry keeps   *)
(* (PROJECT_ROOT / ".gitignore", beside the script), the git commands of    *)
(* get_git_info, the root and the output path.                              *)
(***************************************************************************)
OUTPUT_FILE_PATTERN ==
    <<"*", "_", "m", "e", "r", "g", "e", "d", "_", "s", "o", "u", "r", "c", "e", "s", "*", ".", "t", "x", "t">>

\* str.endswith
endswith(s, e) ==
    Len(s) >= Len(e) /\ SubSeq(s, Len(s) - Len(e) + 1, Len(s)) = e

\* w in s, for strings
str_in(w, s) ==
    \E k \in 1..(Len(s) - Len(w) + 1) : SubSeq(s, k, k + Len(w) - 1) = w

IGNORE_COMMENT ==
    <<"#", " ", "E", "x", "c", "l", "u", "d", "e", " ", "c", "o", "n", "s", "o", "l", "i", "d", "a", "t", "e", "d", " ", "s", "o", "u", "r", "c", "e", " ", "f", "i", "l", "e", "s", "\n">>

NoIgnoreFile ==
    [present |-> FALSE, content |-> <<>>]

IgnoreFile(content) ==
    [present |-> TRUE, content |-> content]

\* ensure_gitignore_entry, had it appended without looking for the pattern
ensure_gitignore_entry_appending(file, update_gitignore, io_ok) ==
    IF ~update_gitignore THEN [file |-> file, raised |-> FALSE]
    ELSE IF ~io_ok THEN [file |-> file, raised |-> FALSE]
    ELSE IF file.present
    THEN [file |-> IgnoreFile(
              file.content
              \o (IF ~endswith(file.content, <<"\n">>) THEN <<"\n">> ELSE <<>>)
              \o <<"\n">> \o IGNORE_COMMENT
              \o OUTPUT_FILE_PATTERN \o <<"\n">>),
          raised |-> FALSE]
    ELSE [file |-> IgnoreFile(IGNORE_COMMENT \o OUTPUT_FILE_PATTERN \o <<"\n">>),
          raised |-> FALSE]

\* ensure_gitignore_entry(update_gitignore) on the ignore file; io_ok tells
\* whether opening it works (an OSError is caught and logged): the file after
\* the call, and whether an exception leaves the call
ensure_gitignore_entry(file, update_gitignore, io_ok) ==
    IF ~update_gitignore THEN [file |-> file, raised |-> FALSE]
    ELSE IF ~io_ok THEN [file |-> file, raised |-> FALSE]
    ELSE IF file.present
    THEN IF str_in(OUTPUT_FILE_PATTERN, file.content)
         THEN [file |-> file, raised |-> FALSE]
         ELSE [file |-> IgnoreFile(
                   file.content
                   \o (IF ~endswith(file.content, <<"\n">>) THEN <<"\n">> ELSE <<>>)
                   \o <<"\n">> \o IGNORE_COMMENT
                   \o OUTPUT_FILE_PATTERN \o <<"\n">>),
               raised |-> FALSE]
    ELSE [file |-> IgnoreFile(IGNORE_COMMENT \o OUTPUT_FILE_PATTERN \o <<"\n">>),
          raised |-> FALSE]

\* the ignore file before the tool runs: none; empty; without and with a final
\* newline; holding the pattern; holding it inside a longer line; holding it
\* twice
GitignoreVariants ==
    { NoIgnoreFile,
      IgnoreFile(<<>>),
      IgnoreFile(<<"n", "o", "d", "e", "_", "m", "o", "d", "u", "l", "e", "s">>),
      IgnoreFile(<<"n", "o", "d", "e", "_", "m", "o", "d", "u", "l", "e", "s", "\n">>),
      IgnoreFile(<<"*", ".", "l", "o", "g", "\n", "*", "_", "m", "e", "r", "g", "e", "d", "_", "s", "o", "u", "r", "c", "e", "s", "*", ".", "t", "x", "t", "\n">>),
      IgnoreFile(<<"/", "o", "l", "d", "*", "_", "m", "e", "r", "g", "e", "d", "_", "s", "o", "u", "r", "c", "e", "s", "*", ".", "t", "x", "t">>),
      IgnoreFile(<<"*", "_", "m", "e", "r", "g", "e", "d", "_", "s", "o", "u", "r", "c", "e", "s", "*", ".", "t", "x", "t", "\n", "*", "_", "m", "e", "r", "g", "e", "d", "_", "s", "o", "u", "r", "c", "e", "s", "*", ".", "t", "x", "t", "\n">>) }

UNKNOWN_GIT_INFO ==
    [raised |-> "none", commit |-> "unknown", date |-> "unknown",
     branch |-> "unknown"]

\* get_git_info: git names what each of the three check_output calls does
\* ("ok", or the exception it raises); the first failure decides
get_git_info(git) ==
    LET failed == { k \in 1..Len(git) : git[k] # "ok" }
    IN  IF failed = {}
        THEN [raised |-> "none", commit |-> "0a1b2c3d",
              date |-> "2025-01-01 00:00:00 +0000", branch |-> "main"]
        ELSE LET e == git[CHOOSE k \in failed : \A j \in failed : k <= j]
             IN  IF e \in {"CalledProcessError", "FileNotFoundError"}
                 THEN UNKNOWN_GIT_INFO
                 ELSE [raised |-> e, commit |-> "", date |-> "", branch |-> ""]

\* what the three git commands do: all succeed; no commit yet; a later command
\* fails; git is not installed; git or the root cannot be executed or entered;
\* the root is not a directory
GitVariants ==
    { <<"ok", "ok", "ok">>,
      <<"CalledProcessError", "CalledProcessError", "ok">>,
      <<"ok", "CalledProcessError", "ok">>,
      <<"ok", "ok", "CalledProcessError">>,
      <<"FileNotFoundError", "FileNotFoundError", "FileNotFoundError">>,
      <<"PermissionError", "PermissionError", "PermissionError">>,
      <<"NotADirectoryError", "NotADirectoryError", "NotADirectoryError">> }

\* the surroundings of the test fixture's run: the root exists, the output
\* file can be opened, git works, no path fails to resolve
FixtureHost ==
    [root_exists |-> TRUE, update_gitignore |-> TRUE, gitignore_ok |-> TRUE,
     output_ok |-> TRUE, git |-> <<"ok", "ok", "ok">>, unresolvable |-> {}]

\* the surroundings that differ from the fixture's in one respect or in the
\* ignore-file switches besides
HostVariants ==
    { [FixtureHost EXCEPT !.root_exists = r, !.update_gitignore = u,
                          !.gitignore_ok = g] :
        r \in BOOLEAN, u \in BOOLEAN, g \in BOOLEAN }
    \cup { [FixtureHost EXCEPT !.output_ok = FALSE, !.update_gitignore = u] :
             u \in BOOLEAN }
    \cup { [FixtureHost EXCEPT !.git = x] : x \in GitVariants }

(***************************************************************************)
(* The state.                                                              *)
(*   fs                the candidate files on disk (by file id)            *)
(*   artifact_exists   the output file exists on disk                      *)
(*   list_env_keys     not args.no_list_env_keys                           *)
(*   arg_max_file_size args.max_file_size                                  *)
(*   max_file_size     the module-level MAX_FILE_SIZE, which main rebinds  *)
(*   pc, run           where the tool is, and which run this is            *)
(*   stats             ProjectConsolidator.stats                           *)
(*   cache             the paths in _file_stats_cache                      *)
(*   out               what has been written to the output file            *)
(*   todo              the files the walk has still to reach, in order     *)
(*   exit_code         what main returned                                  *)
(*   history           the report, statistics and exit code of each        *)
(*                     finished run                                        *)
(*   host              the surroundings of main: whether the root exists,  *)
(*                     the ignore-file switches, whether the output file   *)
(*                     can be opened, what the git commands do, and the    *)
(*                     files whose path fails to resolve                   *)
(*   gitignore         the ignore file beside the script                   *)
(*   fn_pc, fn_in, fn_out   a single call of one function                  *)
(***************************************************************************)
VARIABLES fs, artifact_exists, list_env_keys, arg_max_file_size,
          max_file_size, pc, run, stats, cache, out, todo, exit_code,
          history, host, gitignore, fn_pc, fn_in, fn_out

envVars ==
    <<fs, list_env_keys, arg_max_file_size, host>>

runVars ==
    <<artifact_exists, max_file_size, pc, run, stats, cache, out, todo,
      exit_code, history, gitignore>>

fnVars ==
    <<fn_pc, fn_in, fn_out>>

vars ==
    <<envVars, runVars, fnVars>>

\* the file i as the tool finds it: the output file exists once it is opened
File(i) ==
    IF i = OUTPUT_FILE
    THEN IF artifact_exists THEN TextFile(0, <<>>) ELSE Absent
    ELSE fs[i]

\* a directory exists iff a file exists in it or beneath it
DirPresent(d) ==
    \E i \in FileIds : File(i).present /\ Beneath(FILES[i].dir, d)

(***************************************************************************)
(* build_file_tree.  A tree line is a record: prefix is the indent, one    *)
(* flag per ancestor level (TRUE: the blank extension of a last item,      *)
(* FALSE: the bar), last tells which connector the line carries.           *)
(***************************************************************************)
\* directory.iterdir()
DirItems(d) ==
    { [is_dir |-> TRUE, id |-> c, name |-> DIRS[c].name] :
        c \in { c \in DirIds : DIRS[c].parent = d /\ DirPresent(c) } }
    \cup
    { [is_dir |-> FALSE, id |-> i, name |-> FILES[i].name] :
        i \in { i \in FileIds : FILES[i].dir = d /\ File(i).present } }

\* the sort key (not x.is_dir(), x.name)
ItemLess(a, b) ==
    \/ a.is_dir /\ ~b.is_dir
    \/ a.is_dir = b.is_dir /\ StrLess(a.name, b.name)

RECURSIVE SortItems(_)
SortItems(S) ==
    IF S = {} THEN <<>>
    ELSE LET m == CHOOSE x \in S : \A y \in S \ {x} : ItemLess(x, y)
         IN  <<m>> \o SortItems(S \ {m})

\* sorted(...), then the items whose name is_excluded_dir rejects are dropped
TreeItems(d) ==
    SelectSeq(SortItems(DirItems(d)), LAMBDA x : ~is_excluded_dir(x.name))

RECURSIVE build_file_tree(_, _)
RECURSIVE TreeLines(_, _, _)
\* the loop "for i, item in enumerate(items)" from index i on
TreeLines(items, i, prefix) ==
    IF i > Len(items) THEN <<>>
    ELSE
      LET item == items[i]
          is_last_item == (i = Len(items))
          line == [prefix |-> prefix, last |-> is_last_item,
                   name |-> item.name, is_dir |-> item.is_dir, id |-> item.id]
      IN  (IF item.is_dir
           THEN <<line>> \o build_file_tree(item.id, Append(prefix, is_last_item))
           ELSE IF ~is_excluded_file(item.name, <<>>, File(item.id),
                                     max_file_size).excluded
           THEN <<line>>
           ELSE <<>>)
          \o TreeLines(items, i + 1, prefix)

build_file_tree(directory, prefix) ==
    TreeLines(TreeItems(directory), 1, prefix)

(***************************************************************************)
(* The order in which _process_files reaches the files: os.walk top-down,  *)
(* the excluded directories pruned, each directory's files sorted.         *)
(***************************************************************************)
RECURSIVE SortNames(_)
SortNames(S) ==
    IF S = {} THEN <<>>
    ELSE LET m == CHOOSE i \in S :
                    \A j \in S \ {i} : StrLess(FILES[i].name, FILES[j].name)
         IN  <<m>> \o SortNames(S \ {m})

\* the subdirectories, had the walk not pruned them
WalkDirsUnpruned(d) ==
    SelectSeq([c \in DirIds |-> c],
              LAMBDA c : DIRS[c].parent = d /\ DirPresent(c))

\* dirs[:] = [d for d in dirs if not self.is_excluded_dir(d)]
WalkDirs(d) ==
    SelectSeq([c \in DirIds |-> c],
              LAMBDA c : /\ DIRS[c].parent = d
                         /\ DirPresent(c)
                         /\ ~is_excluded_dir(DIRS[c].name))

RECURSIVE walk_files(_)
RECURSIVE walk_subdirs(_)
walk_subdirs(ds) ==
    IF ds = <<>> THEN <<>>
    ELSE walk_files(Head(ds)) \o walk_subdirs(Tail(ds))

\* walk_files, had os.walk been called with topdown=False
walk_files_bottom_up(d) ==
    walk_subdirs(WalkDirs(d))
    \o SortNames({ i \in FileIds : FILES[i].dir = d /\ File(i).present })

walk_files(d) ==
    SortNames({ i \in FileIds : FILES[i].dir = d /\ File(i).present })
    \o walk_subdirs(WalkDirs(d))

(***************************************************************************)
(* The run: main, consolidate, _process_files.                             *)
(***************************************************************************)
\* the stats of a new ProjectConsolidator
NewStats ==
    [total_files |-> 0, included_files |-> 0, excluded_files |-> 0,
     sensitive_files |-> 0, total_lines |-> 0,
     languages |-> [l \in {} |-> 0]]

\* lang_stats[language] = lang_stats.get(language, 0) + 1
CountLanguage(languages, language) ==
    IF language \in DOMAIN languages
    THEN [languages EXCEPT ![language] = @ + 1]
    ELSE (language :> 1) @@ languages

\* the walk skips the script itself (by name) and the file whose resolved
\* path is the output file's; only when resolving the path fails, it skips the
\* file if its name has the pattern of the output files
is_skipped(i) ==
    \/ FILES[i].name = SCRIPT_NAME
    \/ IF i \in host.unresolvable
       THEN re_match(ARTIFACT_NAME_PATTERN, FILES[i].name)
       ELSE i = OUTPUT_FILE

\* the number of newlines in the content
Newlines(content) ==
    Cardinality({ k \in 1..Len(content) : content[k] = "\n" })

\* len(content.split("\n"))
line_count(content) ==
    Len(split_lines(content))

\* what _write_sensitive_file writes for the file f at rel_path: the section's
\* head, then the keys and the note unless analyze_sensitive_file raises
write_sensitive_file(rel_path, name, f, list_keys) ==
    LET info == analyze_sensitive_file(name, f, list_keys)
    IN  [k |-> "sensitive", path |-> rel_path, size |-> f.size,
         language |-> get_file_language(name),
         has_keys |-> info.has_keys, keys |-> info.keys,
         complete |-> (info.raised = "none")]

sensitive_section(i) ==
    write_sensitive_file(RelPath(i), FILES[i].name, File(i), list_env_keys)

\* the content of file i can be read as UTF-8 text
read_ok(i) ==
    File(i).open_ok /\ File(i).decode = "ok"

\* what _write_regular_file writes for file i: the section with the content,
\* or the error line when reading fails
regular_section(i) ==
    LET f == File(i)
    IN  IF read_ok(i)
        THEN [k |-> "file", path |-> RelPath(i),
              language |-> get_file_language(FILES[i].name),
              lines |-> line_count(f.content), size |-> f.size,
              content |-> f.content]
        ELSE [k |-> "error", path |-> RelPath(i)]

\* the start: a tree of the variants in the fixture's surroundings, or the
\* fixture's tree in other surroundings, or the fixture's tree with the report
\* of an earlier run in it, or with a second dotenv file in it
Init ==
    /\ \/ /\ \E e \in EnvVariants, r \in ReadmeVariants, a \in AppVariants,
                d \in DataVariants, s \in ScriptVariants, x \in SrcVariants :
                fs = [FixtureTree EXCEPT ![1] = e, ![2] = r, ![3] = a,
                                         ![5] = d, ![6] = s, ![11] = x[1],
                                         ![12] = x[2], ![13] = x[3]]
          /\ host = FixtureHost
          /\ gitignore = NoIgnoreFile
       \/ /\ fs = FixtureTree
          /\ host \in HostVariants
          /\ gitignore \in GitignoreVariants
       \/ /\ fs = [FixtureTree EXCEPT ![14] = OldArtifact]
          /\ host \in { [FixtureHost EXCEPT !.unresolvable = u] :
                          u \in { {}, {14}, {3, 14} } }
          /\ gitignore = NoIgnoreFile
       \/ /\ \E e \in EnvVariants :
                fs = [FixtureTree EXCEPT ![1] = e, ![15] = StageDotenv]
          /\ host = FixtureHost
          /\ gitignore = NoIgnoreFile
    /\ list_env_keys \in BOOLEAN
    /\ arg_max_file_size \in ArgMaxFileSizes
    /\ artifact_exists = FALSE
    /\ max_file_size = MAX_FILE_SIZE
    /\ pc = "main"
    /\ run = 1
    /\ stats = NewStats
    /\ cache = {}
    /\ out = <<>>
    /\ todo = <<>>
    /\ exit_code = -1
    /\ history = <<>>
    /\ fn_pc = "none"
    /\ fn_in = <<>>
    /\ fn_out = <<>>

\* main when the project root does not exist: it returns 1 at once
MainRootMissing ==
    /\ pc = "main"
    /\ ~host.root_exists
    /\ stats' = NewStats
    /\ cache' = {}
    /\ out' = <<>>
    /\ todo' = <<>>
    /\ exit_code' = 1
    /\ pc' = "exit"
    /\ history' = Append(history, [out |-> <<>>, stats |-> NewStats,
                                   exit_code |-> 1])
    /\ UNCHANGED <<envVars, artifact_exists, max_file_size, run, gitignore,
                   fnVars>>

\* main, had the statistics been module-level state that outlives a run
MainKeepingStats ==
    /\ pc = "main"
    /\ host.root_exists
    /\ max_file_size' = IF arg_max_file_size # max_file_size
                        THEN arg_max_file_size ELSE max_file_size
    /\ gitignore' = ensure_gitignore_entry(gitignore, host.update_gitignore,
                                           host.gitignore_ok).file
    /\ cache' = {}
    /\ out' = <<>>
    /\ todo' = <<>>
    /\ exit_code' = -1
    /\ pc' = "consolidate"
    /\ UNCHANGED <<envVars, artifact_exists, run, stats, history, fnVars>>

\* main: the size limit is rebound, the ignore file is seen to, the
\* consolidator is created
Main ==
    /\ pc = "main"
    /\ host.root_exists
    /\ max_file_size' = IF arg_max_file_size # max_file_size
                        THEN arg_max_file_size ELSE max_file_size
    /\ gitignore' = ensure_gitignore_entry(gitignore, host.update_gitignore,
                                           host.gitignore_ok).file
    /\ stats' = NewStats
    /\ cache' = {}
    /\ out' = <<>>
    /\ todo' = <<>>
    /\ exit_code' = -1
    /\ pc' = "consolidate"
    /\ UNCHANGED <<envVars, artifact_exists, run, history, fnVars>>

\* consolidate: get_git_info raises, nothing catches it before main, which
\* returns 1
GetGitInfoRaises ==
    /\ pc = "consolidate"
    /\ get_git_info(host.git).raised # "none"
    /\ pc' = "exit"
    /\ exit_code' = 1
    /\ history' = Append(history, [out |-> out, stats |-> stats,
                                   exit_code |-> 1])
    /\ UNCHANGED <<envVars, artifact_exists, max_file_size, run, stats, cache,
                   out, todo, gitignore, fnVars>>

\* consolidate, had it logged the OSError of open without raising it again
OpenOutputFailsQuietly ==
    /\ pc = "consolidate"
    /\ get_git_info(host.git).raised = "none"
    /\ ~host.output_ok
    /\ pc' = "exit"
    /\ exit_code' = 0
    /\ history' = Append(history, [out |-> out, stats |-> stats,
                                   exit_code |-> 0])
    /\ UNCHANGED <<envVars, artifact_exists, max_file_size, run, stats, cache,
                   out, todo, gitignore, fnVars>>

\* consolidate: open(output_file, "w") raises OSError, which consolidate logs
\* and raises again; main returns 1
OpenOutputFails ==
    /\ pc = "consolidate"
    /\ get_git_info(host.git).raised = "none"
    /\ ~host.output_ok
    /\ pc' = "exit"
    /\ exit_code' = 1
    /\ history' = Append(history, [out |-> out, stats |-> stats,
                                   exit_code |-> 1])
    /\ UNCHANGED <<envVars, artifact_exists, max_file_size, run, stats, cache,
                   out, todo, gitignore, fnVars>>

\* consolidate: get_git_info returns, open(output_file, "w") creates or
\* truncates the file
OpenOutput ==
    /\ pc = "consolidate"
    /\ get_git_info(host.git).raised = "none"
    /\ host.output_ok
    /\ artifact_exists' = TRUE
    /\ out' = <<>>
    /\ pc' = "header"
    /\ UNCHANGED <<envVars, max_file_size, run, stats, cache, todo, exit_code,
                   history, gitignore, fnVars>>

WriteHeader ==
    /\ pc = "header"
    /\ out' = out \o <<[k |-> "header", run |-> run,
                         git |-> get_git_info(host.git)],
                        [k |-> "purpose"]>>
    /\ pc' = "tree"
    /\ UNCHANGED <<envVars, artifact_exists, max_file_size, run, stats, cache,
                   todo, exit_code, history, gitignore, fnVars>>

WriteFileTree ==
    /\ pc = "tree"
    /\ out' = Append(out, [k |-> "structure",
                           lines |-> build_file_tree(1, <<>>)])
    /\ pc' = "process"
    /\ UNCHANGED <<envVars, artifact_exists, max_file_size, run, stats, cache,
                   todo, exit_code, history, gitignore, fnVars>>

\* _process_files up to the first file
StartWalk ==
    /\ pc = "process"
    /\ out' = Append(out, [k |-> "sources"])
    /\ todo' = walk_files(1)
    /\ pc' = "walk"
    /\ UNCHANGED <<envVars, artifact_exists, max_file_size, run, stats, cache,
                   exit_code, history, gitignore, fnVars>>

\* _write_regular_file, had it counted a failed read as excluded itself while
\* the caller goes on to count the file as included
write_regular_file_counting_failure(st, i) ==
    LET language == get_file_language(FILES[i].name)
    IN  [st EXCEPT !.languages = CountLanguage(@, language),
                   !.total_lines = IF read_ok(i)
                                   THEN @ + line_count(File(i).content)
                                   ELSE @,
                   !.excluded_files = IF read_ok(i) THEN @ ELSE @ + 1]

\* _write_regular_file, had it counted the language only after the read
write_regular_file_counting_after_read(st, i) ==
    LET language == get_file_language(FILES[i].name)
    IN  IF read_ok(i)
        THEN [st EXCEPT !.languages = CountLanguage(@, language),
                        !.total_lines = @ + line_count(File(i).content)]
        ELSE st

\* _write_regular_file for file i: the language is counted, then the content
\* is read and the section written, or the error line when reading fails
write_regular_file(st, i) ==
    LET language == get_file_language(FILES[i].name)
    IN  [st EXCEPT !.languages = CountLanguage(@, language),
                   !.total_lines = IF read_ok(i)
                                   THEN @ + line_count(File(i).content)
                                   ELSE @]

\* process_file, had it tested the path for sensitivity before the exclusion
process_file_sensitive_first(i) ==
    LET f == File(i)
        counted == [stats EXCEPT !.total_files = @ + 1]
    IN  IF is_skipped(i)
        THEN [stats |-> stats, cache |-> cache, out |-> out, raised |-> FALSE]
        ELSE IF ~f.stat_ok
        THEN [stats |-> [counted EXCEPT !.excluded_files = @ + 1],
              cache |-> cache, out |-> out, raised |-> FALSE]
        ELSE IF is_sensitive_file(PathStr(i))
        THEN LET section == sensitive_section(i)
             IN  IF section.complete
                 THEN [stats |-> [counted EXCEPT !.sensitive_files = @ + 1],
                       cache |-> cache \cup {i}, out |-> Append(out, section),
                       raised |-> FALSE]
                 ELSE [stats |-> counted, cache |-> cache \cup {i},
                       out |-> Append(out, section), raised |-> TRUE]
        ELSE IF is_excluded_file(FILES[i].name, <<f.size>>, f,
                                 max_file_size).excluded
        THEN [stats |-> [counted EXCEPT !.excluded_files = @ + 1],
              cache |-> cache \cup {i}, out |-> out, raised |-> FALSE]
        ELSE [stats |-> [write_regular_file(counted, i)
                           EXCEPT !.included_files = @ + 1],
              cache |-> cache \cup {i},
              out |-> Append(out, regular_section(i)), raised |-> FALSE]

\* the body of the loop "for file in sorted(files)" for file i: the statistics,
\* the cache and the output after it, and whether an exception left it
process_file(i) ==
    LET f == File(i)
        counted == [stats EXCEPT !.total_files = @ + 1]
    IN  IF is_skipped(i)
        THEN [stats |-> stats, cache |-> cache, out |-> out, raised |-> FALSE]
        ELSE IF ~f.stat_ok
        THEN [stats |-> [counted EXCEPT !.excluded_files = @ + 1],
              cache |-> cache, out |-> out, raised |-> FALSE]
        ELSE IF is_excluded_file(FILES[i].name, <<f.size>>, f,
                                 max_file_size).excluded
        THEN [stats |-> [counted EXCEPT !.excluded_files = @ + 1],
              cache |-> cache \cup {i}, out |-> out, raised |-> FALSE]
        ELSE IF is_sensitive_file(PathStr(i))
        THEN LET section == sensitive_section(i)
             IN  IF section.complete
                 THEN [stats |-> [counted EXCEPT !.sensitive_files = @ + 1],
                       cache |-> cache \cup {i}, out |-> Append(out, section),
                       raised |-> FALSE]
                 ELSE [stats |-> counted, cache |-> cache \cup {i},
                       out |-> Append(out, section), raised |-> TRUE]
        ELSE [stats |-> [write_regular_file(counted, i)
                           EXCEPT !.included_files = @ + 1],
              cache |-> cache \cup {i},
              out |-> Append(out, regular_section(i)), raised |-> FALSE]

\* one turn of the loop of _process_files
ProcessFile ==
    /\ pc = "walk" /\ todo # <<>>
    /\ \E r \in {process_file(Head(todo))} :
           /\ ~r.raised
           /\ stats' = r.stats
           /\ cache' = r.cache
           /\ out' = r.out
    /\ todo' = Tail(todo)
    /\ UNCHANGED <<envVars, artifact_exists, max_file_size, pc, run,
                   exit_code, history, gitignore, fnVars>>

\* one turn in which an exception leaves _process_files and consolidate: the
\* with block closes the file and main returns 1
ProcessFileRaises ==
    /\ pc = "walk" /\ todo # <<>>
    /\ \E r \in {process_file(Head(todo))} :
           /\ r.raised
           /\ stats' = r.stats
           /\ cache' = r.cache
           /\ out' = r.out
           /\ history' = Append(history, [out |-> r.out, stats |-> r.stats,
                                          exit_code |-> 1])
    /\ pc' = "exit"
    /\ exit_code' = 1
    /\ UNCHANGED <<envVars, artifact_exists, max_file_size, run, todo, gitignore, fnVars>>

\* _write_statistics, had it been called from inside the loop over the files
WriteStatisticsEarly ==
    /\ pc = "walk"
    /\ out' = out \o <<[k |-> "statistics", run |-> run, stats |-> stats],
                       [k |-> "end"]>>
    /\ pc' = "exit"
    /\ exit_code' = 0
    /\ history' = Append(history, [out |-> out', stats |-> stats,
                                   exit_code |-> 0])
    /\ UNCHANGED <<envVars, artifact_exists, max_file_size, run, stats, cache,
                   todo, gitignore, fnVars>>

\* the walk is over: _write_statistics, the file is closed, main returns 0
WriteStatistics ==
    /\ pc = "walk" /\ todo = <<>>
    /\ out' = out \o <<[k |-> "statistics", run |-> run, stats |-> stats],
                       [k |-> "end"]>>
    /\ pc' = "exit"
    /\ exit_code' = 0
    /\ history' = Append(history, [out |-> out', stats |-> stats,
                                   exit_code |-> 0])
    /\ UNCHANGED <<envVars, artifact_exists, max_file_size, run, stats, cache,
                   todo, gitignore, fnVars>>

\* the tool is started again on the same tree with the same arguments
NextRun ==
    /\ pc = "exit"
    /\ run < MaxRuns
    /\ run' = run + 1
    /\ pc' = "main"
    /\ UNCHANGED <<envVars, artifact_exists, max_file_size, stats, cache, out,
                   todo, exit_code, history, gitignore, fnVars>>

Next ==
    \/ MainRootMissing
    \/ Main
    \/ GetGitInfoRaises
    \/ OpenOutputFails
    \/ OpenOutput
    \/ WriteHeader
    \/ WriteFileTree
    \/ StartWalk
    \/ ProcessFile
    \/ ProcessFileRaises
    \/ WriteStatistics
    \/ NextRun

Spec ==
    Init /\ [][Next]_vars

(***************************************************************************)
(* Single calls of the classifier's functions.  The argument is drawn at   *)
(* the start (fn_in), the call computes the result (fn_out).               *)
(***************************************************************************)
\* the longest run of dots put in front of a directory name
MaxDots ==
    2

\* the longest tail put behind a path
MaxTail ==
    2

\* the longest key of a generated dotenv line
MaxKeyLen ==
    10

\* the number of successive calls of ensure_gitignore_entry
MaxCalls ==
    3

Dots(n) ==
    [i \in 1..n |-> "."]

\* the strings of at most n characters of C
Strings(C, n) ==
    UNION { [1..m -> C] : m \in 0..n }

DirBases ==
    { <<>>,
        <<".", "g", "i", "t">>,
        <<"g", "i", "t">>,
        <<"v", "e", "n", "v">>,
        <<".", "v", "e", "n", "v">>,
        <<"e", "n", "v">>,
        <<"n", "o", "d", "e", "_", "m", "o", "d", "u", "l", "e", "s">>,
        <<"s", "r", "c">>,
        <<"t", "m", "p">>,
        <<"d", "i", "s", "t">>,
        <<"b", "u", "i", "l", "d">>,
        <<"_", "_", "p", "y", "c", "a", "c", "h", "e", "_", "_">>,
        <<".", "t", "o", "x">>,
        <<"t", "o", "x">>,
        <<"m", "i", "g", "r", "a", "t", "i", "o", "n", "s", "/", "_", "_", "p", "y", "c", "a", "c", "h", "e", "_", "_">>,
        <<"c", "o", "v", "e", "r", "a", "g", "e">>,
        <<".", "i", "d", "e", "a">>,
        <<"i", "d", "e", "a">> }

DirTails ==
    { <<>>, <<"x">>, <<"h", "u", "b">>, <<"/">>, <<".">> }

\* directory names: dots, a name of the exclusion set or one near it, a tail
DirNameInputs ==
    { Dots(n) \o b \o t : n \in 0..MaxDots, b \in DirBases, t \in DirTails }

PathPrefixes ==
    { <<>>, <<"/", "w", "/">>, <<"/", "w", "/", "s", "e", "c", "r", "e", "t", "s", "/">>, <<"a", ".", "k", "e", "y", "/">>, <<"/", "w", "/", ".", "e", "n", "v", "/">> }

SensitiveBases ==
    { <<".", "e", "n", "v">>,
        <<".", "E", "N", "V">>,
        <<".", "e", "n", "v", ".", "l", "o", "c", "a", "l">>,
        <<".", "E", "n", "v", ".", "L", "o", "c", "a", "l">>,
        <<".", "e", "n", "v", ".", "l", "o", "c", "a", "l", ".", "b", "a", "k">>,
        <<".", "e", "n", "v", ".", "p", "r", "o", "d", "1">>,
        <<".", "e", "n", "v", "-", "l", "o", "c", "a", "l">>,
        <<".", "e", "n", "v", "r", "c">>,
        <<".", "e", "n", "v", ".">>,
        <<"x", ".", "e", "n", "v">>,
        <<"e", "n", "v">>,
        <<"s", "e", "c", "r", "e", "t", "s", ".", "j", "s", "o", "n">>,
        <<"p", "r", "o", "d", ".", "S", "E", "C", "R", "E", "T", "S", ".", "j", "s", "o", "n">>,
        <<"s", "e", "c", "r", "e", "t", ".", "j", "s", "o", "n">>,
        <<"R", "E", "A", "D", "M", "E", ".", "m", "d">>,
        <<"m", "a", "i", "n", ".", "p", "y">>,
        <<"s", "e", "r", "v", "e", "r", ".", "k", "e", "y">>,
        <<"s", "e", "r", "v", "e", "r", ".", "k", "e", "y", "s">>,
        <<"i", "d", ".", "P", "E", "M">>,
        <<"a", ".", "c", "r", "t">>,
        <<"b", ".", "c", "e", "r", "t">>,
        <<"k", "e", "y">>,
        <<"P", "a", "s", "s", "w", "o", "r", "d", ".", "t", "x", "t">>,
        <<"p", "a", "s", "s", ".", "w", "o", "r", "d">>,
        <<"C", "R", "E", "D", "E", "N", "T", "I", "A", "L", "S">>,
        <<"c", "r", "e", "d", "e", "n", "t", "i", "a", "l">> }

\* paths: a directory part, a file name, a tail of newlines and letters
PathInputs ==
    { d \o b \o t : d \in PathPrefixes, b \in SensitiveBases,
                    t \in Strings({"\n", "x"}, MaxTail) }

FileNameInputs ==
    FORCE_INCLUDE_FILES \cup
    { <<"s", "e", "r", "v", "e", "r", ".", "l", "o", "g", "i", "c", ".", "p", "y">>,
      <<"a", "p", "p", ".", "m", "i", "n", ".", "j", "s", "o", "n">>,
      <<"T", "h", "u", "m", "b", "s", ".", "d", "b", ".", "t", "x", "t">>,
      <<"m", "y", ".", "D", "S", "_", "S", "t", "o", "r", "e">>,
      <<"D", "o", "c", "k", "e", "r", "f", "i", "l", "e">>,
        <<"R", "E", "A", "D", "M", "E", ".", "m", "d">>,
        <<"L", "I", "C", "E", "N", "S", "E">>,
        <<"p", "a", "c", "k", "a", "g", "e", ".", "j", "s", "o", "n">>,
        <<"d", "o", "c", "k", "e", "r", "f", "i", "l", "e">>,
        <<"d", "a", "t", "a", ".", "c", "s", "v">>,
        <<"m", "o", "d", "u", "l", "e", ".", "p", "y", "c">>,
        <<"m", "o", "d", "u", "l", "e", ".", "P", "Y", "C">>,
        <<"p", "a", "c", "k", "a", "g", "e", "-", "l", "o", "c", "k", ".", "j", "s", "o", "n">>,
        <<"m", "a", "i", "n", ".", "p", "y">>,
        <<"a", "p", "p", ".", "m", "i", "n", ".", "j", "s">>,
        <<".", "D", "S", "_", "S", "t", "o", "r", "e">>,
        <<"s", "e", "r", "v", "e", "r", ".", "l", "o", "g">>,
        <<"b", "l", "o", "b">>,
        <<"a", "r", "c", "h", "i", "v", "e", ".", "b", "i", "n">>,
        <<"n", "o", "t", "e", "s", ".", "t", "x", "t">> }

SizeInputs ==
    { 0, 99, 100, MAX_FILE_SIZE - 1, MAX_FILE_SIZE, MAX_FILE_SIZE + 1 }

\* the arguments of is_excluded_file and the file behind the path
ExcludedFileInputs ==
    { [name |-> n, file_size |-> h,
       f |-> [present |-> TRUE, size |-> z, stat_ok |-> st,
              open_ok |-> op, decode |-> de, content |-> <<>>]] :
        n \in FileNameInputs,
        h \in { <<>> } \cup { <<z>> : z \in SizeInputs },
        z \in { 99, MAX_FILE_SIZE - 1, MAX_FILE_SIZE },
        st \in BOOLEAN, op \in BOOLEAN, de \in { "ok", "head" } }

\* dotenv lines: padding, a key (a prefix of a long name, or two words),
\* padding, "=", a value, padding; or the same behind a "#"
LONG_KEY ==
    <<"D", "A", "T", "A", "B", "A", "S", "E", "_", "P", "A", "S", "S", "W", "O", "R", "D", "_", "L", "O", "N", "G">>

KeyInputs ==
    { SubSeq(LONG_KEY, 1, n) : n \in 0..MaxKeyLen }
    \cup { <<"e", "x", "p", "o", "r", "t", " ", "A">>, LONG_KEY }

ValueInputs ==
    { <<>>, <<"1", "2", "3">>, <<"s", "u", "p", "e", "r", "s", "e", "c", "r", "e", "t">>, <<"a", "=", "b">>, <<" ", "x", " ">>, <<"#", "1">> }

Pads ==
    { <<>>, <<" ">> }

LineInputs ==
    { c \o p \o key \o q \o <<"=">> \o v :
        c \in { <<>>, <<"#">> }, p \in Pads, key \in KeyInputs, q \in Pads,
        v \in ValueInputs }
    \cup { <<>>, <<"n", "o", " ", "e", "q", "u", "a", "l", "s", " ", "s", "i", "g", "n">> }

\* dotenv contents: one generated line, then one of a few second lines
ContentInputs ==
    { l \o t : l \in LineInputs,
               t \in { <<>>, <<"\n">>, <<"\n", "B", "=", "2">>, <<"\n", "#", " ", "c", "=", "3", "\n">> } }

\* the arguments of _write_sensitive_file and the file behind the path
SensitiveFileInputs ==
    { [name |-> n,
       f |-> [present |-> TRUE, size |-> Len(c), stat_ok |-> TRUE,
              open_ok |-> op, decode |-> de, content |-> c]] :
        n \in { <<".", "e", "n", "v">>, <<".", "e", "n", "v", ".", "l", "o", "c", "a", "l">>, <<".", "E", "N", "V">>, <<"s", "e", "c", "r", "e", "t", "s", ".", "j", "s", "o", "n">> },
        c \in ContentInputs, op \in BOOLEAN, de \in { "ok", "tail" } }

\* what one git command can do: succeed, exit with an error, or fail to start
GitOutcomes ==
    { "ok", "CalledProcessError", "FileNotFoundError", "PermissionError",
      "NotADirectoryError" }

GitInputs ==
    [1..3 -> GitOutcomes]

\* the run's variables while a single function is called
NoRun ==
    /\ fs = FixtureTree
    /\ host = FixtureHost
    /\ arg_max_file_size = MAX_FILE_SIZE
    /\ artifact_exists = FALSE
    /\ pc = "none"
    /\ run = 0
    /\ stats = NewStats
    /\ cache = {}
    /\ out = <<>>
    /\ todo = <<>>
    /\ exit_code = -1
    /\ history = <<>>

InitFn ==
    /\ NoRun
    /\ list_env_keys \in BOOLEAN
    /\ max_file_size \in ArgMaxFileSizes
    /\ fn_pc = "call"
    /\ fn_out = <<>>
    /\ \/ fn_in = [fn |-> "ensure_gitignore_entry"]
       \/ \E g \in GitInputs :
             fn_in = [fn |-> "get_git_info", git |-> g]
       \/ \E n \in DirNameInputs :
             fn_in = [fn |-> "is_excluded_dir", dir_name |-> n]
       \/ \E x \in ExcludedFileInputs :
             fn_in = [fn |-> "is_excluded_file", name |-> x.name,
                      file_size |-> x.file_size, f |-> x.f]
       \/ \E q \in PathInputs :
             fn_in = [fn |-> "is_sensitive_file", file_str |-> q]
       \/ \E x \in SensitiveFileInputs :
             fn_in = [fn |-> "_write_sensitive_file", name |-> x.name,
                      f |-> x.f]
    /\ IF fn_in.fn = "ensure_gitignore_entry"
       THEN gitignore \in GitignoreVariants
       ELSE gitignore = NoIgnoreFile

CallIsExcludedDir ==
    /\ fn_pc = "call" /\ fn_in.fn = "is_excluded_dir"
    /\ fn_out' = is_excluded_dir(fn_in.dir_name)
    /\ fn_pc' = "return"
    /\ UNCHANGED <<envVars, runVars, fn_in>>

CallIsExcludedFile ==
    /\ fn_pc = "call" /\ fn_in.fn = "is_excluded_file"
    /\ fn_out' = is_excluded_file(fn_in.name, fn_in.file_size, fn_in.f,
                                  max_file_size)
    /\ fn_pc' = "return"
    /\ UNCHANGED <<envVars, runVars, fn_in>>

CallIsSensitiveFile ==
    /\ fn_pc = "call" /\ fn_in.fn = "is_sensitive_file"
    /\ fn_out' = is_sensitive_file(fn_in.file_str)
    /\ fn_pc' = "return"
    /\ UNCHANGED <<envVars, runVars, fn_in>>

CallWriteSensitiveFile ==
    /\ fn_pc = "call" /\ fn_in.fn = "_write_sensitive_file"
    /\ fn_out' = write_sensitive_file(fn_in.name, fn_in.name, fn_in.f,
                                      list_env_keys)
    /\ fn_pc' = "return"
    /\ UNCHANGED <<envVars, runVars, fn_in>>

\* one more call of ensure_gitignore_entry, with updating on or off, the
\* file's directory writable or not; fn_out lists the calls made
CallEnsureGitignoreEntry ==
    /\ fn_pc = "call" /\ fn_in.fn = "ensure_gitignore_entry"
    /\ \E u \in BOOLEAN, ok \in BOOLEAN :
          \E r \in {ensure_gitignore_entry(gitignore, u, ok)} :
              /\ gitignore' = r.file
              /\ fn_out' = Append(fn_out,
                                  [update_gitignore |-> u, io_ok |-> ok,
                                   before |-> gitignore, after |-> r.file,
                                   raised |-> r.raised])
    /\ fn_pc' = IF Len(fn_out) + 1 = MaxCalls THEN "return" ELSE "call"
    /\ UNCHANGED <<envVars, artifact_exists, max_file_size, pc, run, stats,
                   cache, out, todo, exit_code, history, fn_in>>

CallGetGitInfo ==
    /\ fn_pc = "call" /\ fn_in.fn = "get_git_info"
    /\ fn_out' = get_git_info(fn_in.git)
    /\ fn_pc' = "return"
    /\ UNCHANGED <<envVars, runVars, fn_in>>

NextFn ==
    \/ CallEnsureGitignoreEntry
    \/ CallGetGitInfo
    \/ CallIsExcludedDir
    \/ CallIsExcludedFile
    \/ CallIsSensitiveFile
    \/ CallWriteSensitiveFile

SpecFn ==
    InitFn /\ [][NextFn]_vars

\* the call of fn has returned
Returned(fn) ==
    fn_pc = "return" /\ fn_in.fn = fn

(***************************************************************************)
(* Properties of the run.                                                  *)
(***************************************************************************)
Balanced(st) ==
    st.total_files = st.included_files + st.excluded_files + st.sensitive_files

\* the per-file sections of a report
Sections(o) ==
    SelectSeq(o, LAMBDA x : x.k \in {"file", "sensitive"})

\* file i lies beneath a directory that is_excluded_dir rejects
Pruned(i) ==
    \E d \in DirIds \ {1} :
        Beneath(FILES[i].dir, d) /\ is_excluded_dir(DIRS[d].name)

\* a run has ended normally
Completed ==
    pc = "exit" /\ exit_code = 0

\* C1: between two files of the walk and at the end of every completed run,
\* total_files = included_files + excluded_files + sensitive_files; the only
\* states excepted are those after an exception has left a file's iteration.
C1_CountersBalance ==
    /\ exit_code # 1 => Balanced(stats)
    /\ \A n \in 1..Len(history) :
          history[n].exit_code = 0 => Balanced(history[n].stats)

\* a completed run that has counted into all three buckets
C1_Witness ==
    /\ Completed
    /\ stats.included_files > 0
    /\ stats.excluded_files > 0
    /\ stats.sensitive_files > 0

\* C6: a file beneath an excluded directory is never waited for by the walk,
\* never statted, never given a section and never shown in the tree, no line
\* of the tree is an excluded directory, and a completed run has counted
\* exactly the files that are neither pruned nor skipped.
C6_PrunedNeverVisited ==
    /\ \A i \in FileIds :
          Pruned(i) =>
            /\ i \notin cache
            /\ \A n \in 1..Len(todo) : todo[n] # i
            /\ \A n \in 1..Len(out) :
                  /\ out[n].k \in {"file", "sensitive", "error"}
                        => out[n].path # RelPath(i)
                  /\ out[n].k = "structure"
                        => \A m \in 1..Len(out[n].lines) :
                              out[n].lines[m].is_dir \/ out[n].lines[m].id # i
    /\ \A n \in 1..Len(out) :
          out[n].k = "structure"
             => \A m \in 1..Len(out[n].lines) :
                   out[n].lines[m].is_dir
                      => ~is_excluded_dir(out[n].lines[m].name)
    /\ Completed
          => stats.total_files =
                Cardinality({ i \in FileIds : /\ File(i).present
                                              /\ ~Pruned(i)
                                              /\ ~is_skipped(i) })

\* a completed run on a tree with files in an excluded directory and in a
\* directory beneath one
C6_Witness ==
    /\ Completed
    /\ File(9).present /\ Pruned(9)
    /\ File(10).present /\ Pruned(10)
    /\ stats.total_files > 0

\* the run of test_full_consolidation_workflow on the fixture is over
FixtureRun ==
    /\ fs = FixtureTree
    /\ host = FixtureHost
    /\ list_env_keys
    /\ arg_max_file_size = MAX_FILE_SIZE
    /\ run = 1
    /\ pc = "exit"

FixtureSections ==
    << [k |-> "sensitive", path |-> <<".", "e", "n", "v">>, size |-> 10,
        language |-> "Text", has_keys |-> TRUE,
        keys |-> << <<"S", "E", "C", "R", "E", "T", "=", "{", "E", "x", "i", "s", "t", "s", "}">> >>, complete |-> TRUE],
       [k |-> "file", path |-> <<"R", "E", "A", "D", "M", "E", ".", "m", "d">>, language |-> "Markdown",
        lines |-> 1, size |-> 15, content |-> <<"This is a test.">>],
       [k |-> "file", path |-> <<"a", "p", "p", ".", "p", "y">>, language |-> "Python",
        lines |-> 1, size |-> 14, content |-> <<"print(hello)">>],
       [k |-> "file", path |-> <<".", "g", "i", "t", "h", "u", "b", "/", "w", "o", "r", "k", "f", "l", "o", "w", "s", "/", "c", "i", ".", "y", "m", "l">>,
        language |-> "YAML", lines |-> 2, size |-> 9,
        content |-> <<"name: CI", "\n">>] >>

\* C7 as stated: on the fixture the run reports included = 3, sensitive = 1
\* and excluded >= 1.
C7_AsStated ==
    FixtureRun =>
        /\ stats.included_files = 3
        /\ stats.sensitive_files = 1
        /\ stats.excluded_files >= 1

\* C7, amended: on the fixture the run completes with included = 3,
\* sensitive = 1, excluded = 0 and total = 4 (node_modules/react.js is pruned,
\* so it is counted nowhere), with full sections for README.md, app.py and
\* .github/workflows/ci.yml, a metadata section for .env with the one key, and
\* nothing else.
C7_FixtureReport ==
    FixtureRun =>
        /\ exit_code = 0
        /\ stats.included_files = 3
        /\ stats.sensitive_files = 1
        /\ stats.excluded_files = 0
        /\ stats.total_files = 4
        /\ Sections(out) = FixtureSections
        /\ \A n \in 1..Len(out) : out[n].k # "error"

C7_Witness ==
    FixtureRun /\ exit_code = 0 /\ Len(Sections(out)) = 4

ScrubValues(content) ==
    [i \in 1..Len(content) |->
        IF /\ content[i] # "\n"
           /\ \E j \in 1..(i - 1) :
                 content[j] = "=" /\ \A k \in j..i : content[k] # "\n"
        THEN "*"
        ELSE content[i]]

\* C2: what is written for a sensitive file does not depend on its values:
\* the section written is the section written for the same file with every
\* character after the first "=" of each line replaced (same size), and for
\* a file that is not a dotenv file it is the section written for the file
\* with its content emptied
C2_ValuesWithheld ==
    Returned("_write_sensitive_file") =>
        /\ fn_out = write_sensitive_file(fn_in.name, fn_in.name,
                        [fn_in.f EXCEPT !.content = ScrubValues(@)],
                        list_env_keys)
        /\ ~startswith(fn_in.name, <<".", "e", "n", "v">>) =>
              fn_out = write_sensitive_file(fn_in.name, fn_in.name,
                           [fn_in.f EXCEPT !.content = <<>>], list_env_keys)

C2_Witness ==
    /\ Returned("_write_sensitive_file")
    /\ list_env_keys
    /\ fn_in.name = <<".", "e", "n", "v">>
    /\ fn_in.f.content = LONG_KEY \o <<"=">> \o <<"s", "u", "p", "e", "r", "s", "e", "c", "r", "e", "t">>
    /\ fn_out.keys = << <<"D", "A", "T", "A", ".", ".", ".", "N", "G", "=", "{", "E", "x", "i", "s", "t", "s", "}">> >>

\* C3: a file whose base name is in the force-include set is not excluded,
\* whatever the size handed in, the configured maximum and the file's
\* readability, and its size is not resolved
C3_ForceIncludeFirst ==
    (Returned("is_excluded_file") /\ fn_in.name \in FORCE_INCLUDE_FILES) =>
        (~fn_out.excluded /\ ~fn_out.resolved)

C3_Witness ==
    /\ Returned("is_excluded_file")
    /\ fn_in.name = <<"D", "o", "c", "k", "e", "r", "f", "i", "l", "e">>
    /\ fn_in.file_size = <<MAX_FILE_SIZE>>
    /\ ~fn_in.f.open_ok
    /\ ~fn_out.excluded

\* the name is not force-included and no extension or filename-pattern rule
\* catches it
ReachesSizeRule(name) ==
    /\ name \notin FORCE_INCLUDE_FILES
    /\ LowerStr(suffix(name)) \notin EXCLUDE_EXTENSIONS
    /\ \A pattern \in EXCLUDE_FILES : ~matches_exclude_pattern(name, pattern)

\* the size the call works with: the one handed in, else the file's
HasSize(size) ==
    \/ fn_in.file_size = <<size>>
    \/ fn_in.file_size = <<>> /\ fn_in.f.stat_ok /\ fn_in.f.size = size

LeadingDots(name) ==
    Cardinality({ k \in 1..Len(name) : \A j \in 1..k : name[j] = "." })

\* C5: a directory name is excluded iff the name, or the name without its
\* leading dots, is in the exclusion set; .git, venv, .venv and node_modules
\* are excluded, .github and src are not
C5_ExactName ==
    Returned("is_excluded_dir") =>
        /\ fn_out <=>
              \/ fn_in.dir_name \in EXCLUDE_DIRS
              \/ SubSeq(fn_in.dir_name, LeadingDots(fn_in.dir_name) + 1,
                        Len(fn_in.dir_name)) \in EXCLUDE_DIRS
        /\ fn_in.dir_name \in { <<".", "g", "i", "t">>, <<"v", "e", "n", "v">>, <<".", "v", "e", "n", "v">>,
                                <<"n", "o", "d", "e", "_", "m", "o", "d", "u", "l", "e", "s">> } => fn_out
        /\ fn_in.dir_name \in { <<".", "g", "i", "t", "h", "u", "b">>, <<"s", "r", "c">> } => ~fn_out

C5_Witness ==
    /\ Returned("is_excluded_dir")
    /\ fn_in.dir_name = <<".", "g", "i", "t", "h", "u", "b">>
    /\ ~fn_out

EndsWith(s, e) ==
    Len(s) >= Len(e) /\ SubSeq(s, Len(s) - Len(e) + 1, Len(s)) = e

Contains(s, w) ==
    \E k \in 1..(Len(s) - Len(w) + 1) : SubSeq(s, k, k + Len(w) - 1) = w

\* s ends in ".env", or in ".env." and one or more letters
EndsWithDotenv(s) ==
    \E k \in 1..(Len(s) - 3) :
        /\ SubSeq(s, k, k + 3) = <<".", "e", "n", "v">>
        /\ \/ k + 3 = Len(s)
           \/ /\ k + 5 <= Len(s)
              /\ s[k + 4] = "."
              /\ \A j \in (k + 5)..Len(s) : IsAZ(s[j])

\* s, in lower case, is of one of the kinds of sensitive path
SensitiveKind(s) ==
    \/ EndsWithDotenv(s)
    \/ \E e \in { <<".", "k", "e", "y">>, <<".", "p", "e", "m">>, <<".", "c", "r", "t">>, <<".", "c", "e", "r", "t">> } : EndsWith(s, e)
    \/ \E w \in { <<"s", "e", "c", "r", "e", "t", "s">>, <<"c", "r", "e", "d", "e", "n", "t", "i", "a", "l", "s">>, <<"p", "a", "s", "s", "w", "o", "r", "d">> } : Contains(s, w)

\* s without one final newline
Chomp(s) ==
    IF s # <<>> /\ s[Len(s)] = "\n" THEN SubSeq(s, 1, Len(s) - 1) ELSE s

\* C9 as stated: a path is sensitive iff, case-insensitively, it ends in a
\* dotenv name or in .key/.pem/.crt/.cert, or contains secrets, credentials
\* or password
C9_AsStated ==
    Returned("is_sensitive_file") =>
        (fn_out <=> SensitiveKind(LowerStr(fn_in.file_str)))

\* C9: a path is sensitive iff, case-insensitively, the path or the path
\* without one final newline ends in a dotenv name or in .key/.pem/.crt/
\* .cert, or the path contains secrets, credentials or password; .env, .ENV,
\* secrets.json and prod.SECRETS.json are sensitive, README.md and main.py
\* are not
C9_SensitiveIffPattern ==
    Returned("is_sensitive_file") =>
        /\ fn_out <=> \/ SensitiveKind(LowerStr(fn_in.file_str))
                      \/ SensitiveKind(Chomp(LowerStr(fn_in.file_str)))
        /\ fn_in.file_str \in { <<".", "e", "n", "v">>, <<".", "E", "N", "V">>, <<"s", "e", "c", "r", "e", "t", "s", ".", "j", "s", "o", "n">>,
                                <<"p", "r", "o", "d", ".", "S", "E", "C", "R", "E", "T", "S", ".", "j", "s", "o", "n">> } => fn_out
        /\ fn_in.file_str \in { <<"R", "E", "A", "D", "M", "E", ".", "m", "d">>, <<"m", "a", "i", "n", ".", "p", "y">> } => ~fn_out

C9_Witness ==
    /\ Returned("is_sensitive_file")
    /\ fn_in.file_str = <<"/", "w", "/", ".", "e", "n", "v", "\n">>
    /\ fn_out

\* the key of line l: what stands before the first "=", without the spaces
\* around it
Unpadded(l) ==
    LET e == CHOOSE i \in 1..Len(l) : l[i] = "=" /\ \A j \in 1..(i - 1) : l[j] # "="
        K == { i \in 1..(e - 1) : l[i] # " " }
    IN  IF K = {} THEN <<>>
        ELSE SubSeq(l, CHOOSE i \in K : \A j \in K : i <= j,
                       CHOOSE i \in K : \A j \in K : i >= j)

\* the line of content that starts at position s
LineAt(content, s) ==
    LET ends == { i \in s..(Len(content) + 1) :
                    i = Len(content) + 1 \/ content[i] = "\n" }
    IN  SubSeq(content, s, (CHOOSE i \in ends : \A j \in ends : i <= j) - 1)

\* the starts of the KEY=VALUE lines of content that are not comments
KeyLineStarts(content) ==
    { s \in 1..Len(content) :
        /\ s = 1 \/ content[s - 1] = "\n"
        /\ \E i \in 1..Len(LineAt(content, s)) : LineAt(content, s)[i] = "="
        /\ \E i \in 1..Len(LineAt(content, s)) :
              /\ LineAt(content, s)[i] # " "
              /\ \A j \in 1..(i - 1) : LineAt(content, s)[j] = " "
              /\ LineAt(content, s)[i] # "#" }

\* the entry stated for a key
StatedEntry(key) ==
    IF Len(key) > 8
    THEN <<key[1], key[2], key[3], key[4], ".", ".", ".",
           key[Len(key) - 1], key[Len(key)]>> \o <<"=", "{", "E", "x", "i", "s", "t", "s", "}">>
    ELSE key \o <<"=", "{", "E", "x", "i", "s", "t", "s", "}">>

\* the entries stated for a dotenv content, in line order
StatedEntries(content) ==
    LET S == KeyLineStarts(content)
    IN  [n \in 1..Cardinality(S) |->
            StatedEntry(Unpadded(LineAt(content,
                CHOOSE s \in S : Cardinality({ t \in S : t < s }) = n - 1)))]

\* C10: for a readable dotenv file with key listing enabled the entries are,
\* line by line, the key of each KEY=VALUE line that is not a comment: a key
\* longer than 8 characters as its first 4 characters, "..." and its last 2,
\* a shorter key whole, each followed by the marker; with key listing
\* disabled no entry is written
C10_KeyRedaction ==
    Returned("_write_sensitive_file") =>
        /\ ( /\ list_env_keys
             /\ startswith(fn_in.name, <<".", "e", "n", "v">>)
             /\ fn_in.f.open_ok
             /\ fn_in.f.decode = "ok" ) =>
              (fn_out.has_keys /\ fn_out.keys = StatedEntries(fn_in.f.content))
        /\ ~list_env_keys => (~fn_out.has_keys /\ fn_out.keys = <<>>)

C10_Witness ==
    /\ Returned("_write_sensitive_file")
    /\ list_env_keys
    /\ fn_in.name = <<".", "e", "n", "v", ".", "l", "o", "c", "a", "l">>
    /\ fn_in.f.open_ok
    /\ fn_in.f.decode = "ok"
    /\ fn_in.f.content = <<" ", "D", "A", "T", "A", "B", "A", "S", "E", "_", " ", "=", "1", "2", "3", "\n", "B", "=", "2">>
    /\ fn_out.keys = << <<"D", "A", "T", "A", ".", ".", ".", "E", "_", "=", "{", "E", "x", "i", "s", "t", "s", "}">>, <<"B", "=", "{", "E", "x", "i", "s", "t", "s", "}">> >>

(***************************************************************************)
(* Properties of the run: failures, self-exclusion, order.                 *)
(***************************************************************************)
\* the sum of the counts of a language map
RECURSIVE SumCounts(_)
SumCounts(languages) ==
    IF DOMAIN languages = {} THEN 0
    ELSE LET l == CHOOSE l \in DOMAIN languages : TRUE
         IN  languages[l]
             + SumCounts([x \in DOMAIN languages \ {l} |-> languages[x]])

\* the positions of the sections of kind k in a report
Positions(o, k) ==
    { n \in 1..Len(o) : o[n].k = k }

\* C11 as stated: a file whose content cannot be read is counted as excluded,
\* not as included, and adds nothing to the language counters: while files are
\* processed and after a completed run, included_files and the language
\* counts are the number of sections written with content.
C11_AsStated ==
    (pc \in {"walk", "exit"} /\ exit_code # 1) =>
        /\ stats.included_files = Cardinality(Positions(out, "file"))
        /\ SumCounts(stats.languages) = Cardinality(Positions(out, "file"))

\* the root exists, git information is returned and the output file opens:
\* nothing but a failure on an entry of the tree can stop the run
RunStarts ==
    /\ host.root_exists
    /\ host.output_ok
    /\ get_git_info(host.git).raised = "none"

\* C12 as stated: no failure on a file or directory aborts a run: every run
\* that starts ends with exit code 0, the statistics block and the end marker
\* written.
C12_AsStated ==
    (pc = "exit" /\ RunStarts) =>
        /\ exit_code = 0
        /\ Len(out) >= 2
        /\ out[Len(out) - 1].k = "statistics"
        /\ out[Len(out)].k = "end"

\* name has the form *_merged_sources*.txt
IsArtifactName(name) ==
    \E k \in 1..(Len(name) - 18) :
        /\ SubSeq(name, k, k + 14) = <<"_", "m", "e", "r", "g", "e", "d", "_", "s", "o", "u", "r", "c", "e", "s">>
        /\ SubSeq(name, Len(name) - 3, Len(name)) = <<".", "t", "x", "t">>

\* file i is the output file, a report of an earlier run, or the script
IsOwnFile(i) ==
    \/ i = OUTPUT_FILE
    \/ IsArtifactName(FILES[i].name)
    \/ FILES[i].name = SCRIPT_NAME

\* C13 as stated: the output file, every file named like an output file and
\* the script itself are skipped before they are counted: they are never
\* statted, get no section, and a completed run has counted exactly the other
\* files the walk reaches.
C13_AsStated ==
    /\ \A i \in FileIds :
          IsOwnFile(i) =>
            /\ i \notin cache
            /\ \A n \in 1..Len(out) :
                  out[n].k \in {"file", "sensitive", "error"}
                     => out[n].path # RelPath(i)
    /\ Completed
          => stats.total_files =
                Cardinality({ i \in FileIds : /\ File(i).present
                                              /\ ~Pruned(i)
                                              /\ ~IsOwnFile(i) })

\* the place of a part of the report in the fixed order
Rank(part) ==
    CASE part.k = "header" -> 1
      [] part.k = "purpose" -> 2
      [] part.k = "structure" -> 3
      [] part.k = "sources" -> 4
      [] part.k \in {"file", "sensitive", "error"} -> 5
      [] part.k = "statistics" -> 6
      [] part.k = "end" -> 7

\* C14: the report is written in the order header, purpose, structure with
\* the whole tree, source files with all per-file sections, statistics, end:
\* at any time the parts written are in this order, none left out and only
\* the per-file sections repeated; when the first per-file section is due the
\* whole tree has been written; the statistics are written when no file is
\* left and are the counters' final values; a completed run has written all
\* parts.
C14_SectionOrder ==
    /\ out # <<>> => Rank(out[1]) = 1
    /\ \A n \in 1..(Len(out) - 1) :
          \/ Rank(out[n + 1]) = Rank(out[n]) + 1
          \/ Rank(out[n]) = 5 /\ Rank(out[n + 1]) \in {5, 6}
          \/ Rank(out[n]) = 4 /\ Rank(out[n + 1]) = 6
    /\ pc = "process" => out[Len(out)].lines = build_file_tree(1, <<>>)
    /\ \A n \in 1..Len(out) :
          out[n].k = "statistics" => (todo = <<>> /\ out[n].stats = stats)
    /\ Completed => (Len(out) >= 6 /\ Rank(out[Len(out)]) = 7)

\* a completed run that wrote a tree, sections of both kinds, and statistics
\* that count them
C14_Witness ==
    /\ Completed
    /\ \E n \in 1..Len(out) : out[n].k = "structure" /\ Len(out[n].lines) > 2
    /\ Positions(out, "file") # {}
    /\ Positions(out, "sensitive") # {}
    /\ out[Len(out) - 1].stats.total_files >= 3

(***************************************************************************)
(* Properties of get_git_info, ensure_gitignore_entry and main.            *)
(***************************************************************************)
\* C15 as stated: get_git_info never raises; when any of the three commands
\* fails, for whatever reason, it returns commit = branch = date = "unknown",
\* and otherwise three values none of which is "unknown".
C15_AsStated ==
    Returned("get_git_info") =>
        /\ fn_out.raised = "none"
        /\ (\E k \in 1..3 : fn_in.git[k] # "ok") =>
              ( /\ fn_out.commit = "unknown"
                /\ fn_out.branch = "unknown"
                /\ fn_out.date = "unknown" )
        /\ (\A k \in 1..3 : fn_in.git[k] = "ok") =>
              ( /\ fn_out.commit # "unknown"
                /\ fn_out.branch # "unknown"
                /\ fn_out.date # "unknown" )

\* how often the output pattern occurs in a text
Occurrences(content) ==
    Cardinality({ k \in 1..(Len(content) - 20) :
                    SubSeq(content, k, k + 20) = <<"*", "_", "m", "e", "r", "g", "e", "d", "_", "s", "o", "u", "r", "c", "e", "s", "*", ".", "t", "x", "t">> })

ReportComplete ==
    out # <<>> /\ out[Len(out)].k = "end"

RuleOrder ==
    <<"force", "extension", "pattern", "stat", "size", "binary">>

\* rule fires for the call's arguments, taken on its own
RuleFires(rule, name, file_size, f, max_size) ==
    CASE rule = "force" -> name \in FORCE_INCLUDE_FILES
      [] rule = "extension" ->
            \E e \in EXCLUDE_EXTENSIONS :
                /\ Len(e) <= Len(name)
                /\ e = LowerStr(SubSeq(name, Len(name) - Len(e) + 1, Len(name)))
                /\ \A j \in (Len(name) - Len(e) + 2)..Len(name) : name[j] # "."
                /\ Len(e) < Len(name)
      [] rule = "pattern" ->
            \E pattern \in EXCLUDE_FILES : matches_exclude_pattern(name, pattern)
      [] rule = "stat" -> file_size = <<>> /\ ~f.stat_ok
      [] rule = "size" ->
            \/ file_size # <<>> /\ file_size[1] >= max_size
            \/ file_size = <<>> /\ f.size >= max_size
      [] rule = "binary" -> ~is_text_file(name, f)

\* the first rule from position k on that fires, "include" when none does
RECURSIVE FirstMatch(_, _, _, _, _)
FirstMatch(k, name, file_size, f, max_size) ==
    IF k > Len(RuleOrder) THEN "include"
    ELSE IF RuleFires(RuleOrder[k], name, file_size, f, max_size)
    THEN RuleOrder[k]
    ELSE FirstMatch(k + 1, name, file_size, f, max_size)

\* C18: is_excluded_file decides as the first rule that fires in the order
\* force-include, extension, filename pattern, size resolution, size limit,
\* text heuristic; the extension and pattern rules decide without resolving
\* the size; with no size handed in and no size obtainable, a file the first
\* three rules leave undecided is excluded.
C18_DecisionList ==
    Returned("is_excluded_file") =>
        \E d \in {FirstMatch(1, fn_in.name, fn_in.file_size, fn_in.f,
                             max_file_size)} :
            /\ fn_out.ret = d
            /\ fn_out.excluded <=> d \notin {"force", "include"}
            /\ d \in {"extension", "pattern"} => ~fn_out.resolved
            /\ (/\ fn_in.file_size = <<>>
                /\ ~fn_in.f.stat_ok
                /\ d \notin {"force", "extension", "pattern"}) => fn_out.excluded

\* a small text file of unknown size whose stat fails is excluded
C18_Witness ==
    /\ Returned("is_excluded_file")
    /\ fn_in.file_size = <<>>
    /\ ~fn_in.f.stat_ok
    /\ fn_in.f.open_ok
    /\ fn_in.name = <<"m", "a", "i", "n", ".", "p", "y">>
    /\ fn_out.excluded
    /\ fn_out.resolved

\* pattern[i..] matches name[j..] to its end as a glob: "*" stands for any
\* run of characters, every other character for itself
RECURSIVE GlobFrom(_, _, _, _)
GlobFrom(pattern, i, name, j) ==
    IF i > Len(pattern) THEN j > Len(name)
    ELSE IF pattern[i] = "*"
    THEN \E k \in j..(Len(name) + 1) : GlobFrom(pattern, i + 1, name, k)
    ELSE /\ j <= Len(name)
         /\ name[j] = pattern[i]
         /\ GlobFrom(pattern, i + 1, name, j + 1)

\* the base name equals an exact name of EXCLUDE_FILES or matches one of its
\* wildcard patterns as a whole
WholeNameExcluded(name) ==
    \E pattern \in EXCLUDE_FILES : GlobFrom(pattern, 1, name, 1)

\* C19: the filename-pattern rule of is_excluded_file excludes a file iff its
\* base name equals an exact name or matches a wildcard pattern as a whole
\* name; a name of which only a proper prefix matches is not excluded by it.
C19_AsStated ==
    (/\ Returned("is_excluded_file")
     /\ fn_in.name \notin FORCE_INCLUDE_FILES
     /\ LowerStr(suffix(fn_in.name)) \notin EXCLUDE_EXTENSIONS) =>
        (fn_out.ret = "pattern" <=> WholeNameExcluded(fn_in.name))

(***************************************************************************)
(* Properties of the walk: exclusion and sensitivity.                      *)
(***************************************************************************)
\* the files beneath a directory the walk prunes
PrunedFiles ==
    { i \in FileIds : Pruned(i) }

\* the files the walk has taken from its list so far, the script and the
\* output file left aside
VisitedFiles ==
    IF Positions(out, "sources") = {} THEN {}
    ELSE { i \in FileIds \ PrunedFiles :
             /\ File(i).present
             /\ ~is_skipped(i)
             /\ \A n \in 1..Len(todo) :
                   todo[n] = i => (n = 1 /\ exit_code = 1) }

\* the files of V whose stat fails or for which is_excluded_file is true
ExcludedAmong(V) ==
    { i \in V :
        \E f \in {File(i)} :
            \/ ~f.stat_ok
            \/ is_excluded_file(FILES[i].name, <<f.size>>, f,
                                max_file_size).excluded }

\* the files whose path matches a sensitive pattern
SensitiveFiles ==
    { i \in FileIds : is_sensitive_file(PathStr(i)) }

\* the files with a part of kind k in the report
WithPart(k) ==
    { i \in FileIds : \E n \in Positions(out, k) : out[n].path = RelPath(i) }

TreeOfReport ==
    IF Positions(out, "structure") = {} THEN <<>>
    ELSE out[CHOOSE p \in Positions(out, "structure") : TRUE].lines

\* line m of L is a later child of the directory line n is a child of
LaterSibling(L, n, m) ==
    /\ m > n
    /\ Len(L[m].prefix) = Len(L[n].prefix)
    /\ \A j \in (n + 1)..(m - 1) : Len(L[j].prefix) > Len(L[n].prefix)

\* C21 as stated: at every level of the tree the last line emitted for the
\* level's children carries the last-sibling connector and every earlier one
\* the non-last connector, and the lines beneath a directory line are indented
\* by the extension that goes with that line's connector.
C21_AsStated ==
    \E L \in {TreeOfReport} :
        \A n \in 1..Len(L) :
            /\ L[n].last <=> ~\E m \in 1..Len(L) : LaterSibling(L, n, m)
            /\ (n < Len(L) /\ Len(L[n + 1].prefix) > Len(L[n].prefix)) =>
                  /\ L[n].is_dir
                  /\ L[n + 1].prefix = Append(L[n].prefix, L[n].last)

(***************************************************************************)
(* Properties of the statistics: lines and languages.                      *)
(***************************************************************************)
\* the sum over the files of F of the number of newlines of the content + 1
RECURSIVE SumLines(_)
SumLines(F) ==
    IF F = {} THEN 0
    ELSE LET i == CHOOSE i \in F : TRUE
         IN  Newlines(File(i).content) + 1 + SumLines(F \ {i})

\* C22 as stated: at the end of a run total_lines is the sum, over exactly
\* the files counted in included_files, of the number of newline characters
\* of the content + 1.
C22_AsStated ==
    Completed =>
        \E V \in {VisitedFiles} :
            \E I \in {(V \ ExcludedAmong(V)) \ SensitiveFiles} :
                /\ stats.included_files = Cardinality(I)
                /\ stats.total_lines = SumLines(I)

(***************************************************************************)
(* Properties of the order of the walk.                                    *)
(***************************************************************************)
\* a precedes b in lexicographic order: at the first place where they differ
\* a has ended or has the character of the smaller code
LexLess(a, b) ==
    \E k \in 1..(Len(b)) :
        /\ k <= Len(a) + 1
        /\ \A j \in 1..(k - 1) : a[j] = b[j]
        /\ k <= Len(a) => CharCode[a[k]] < CharCode[b[k]]

\* the files of the FILE: sections of the report, in the order written
RECURSIVE SectionFiles(_)
SectionFiles(o) ==
    IF o = <<>> THEN <<>>
    ELSE IF Head(o).k \in {"file", "sensitive"}
    THEN <<CHOOSE i \in FileIds : RelPath(i) = Head(o).path>>
         \o SectionFiles(Tail(o))
    ELSE SectionFiles(Tail(o))

\* C23: of two files of one directory that both get a section, the one with
\* the lexicographically smaller name has its section first; no section of a
\* file in a subdirectory of a directory precedes a section of one of that
\* directory's own files.
C23_VisitOrder ==
    \E F \in {SectionFiles(out)} :
        \A n \in 1..Len(F) : \A m \in (n + 1)..Len(F) :
            /\ FILES[F[n]].dir = FILES[F[m]].dir =>
                  LexLess(FILES[F[n]].name, FILES[F[m]].name)
            /\ ~(/\ FILES[F[n]].dir # FILES[F[m]].dir
                 /\ Beneath(FILES[F[n]].dir, FILES[F[m]].dir))

\* a completed run has written the sections of .env, README.md and app.py of
\* the root in this order, and after them that of .github/workflows/ci.yml
C23_Witness ==
    /\ Completed
    /\ \E F \in {SectionFiles(out)} :
          /\ Len(F) >= 4
          /\ SubSeq(F, 1, 3) = <<1, 2, 3>>
          /\ \E m \in 4..Len(F) : F[m] = 8

\* C24: between two files of the walk and at the end of every run, the counts
\* of the language map sum to included_files, every count is at least 1, and
\* the count of a label is the number of files counted as included that
\* carry it.
C24_LanguageCounts ==
    pc \in {"walk", "exit"} =>
        /\ SumCounts(stats.languages) = stats.included_files
        /\ \A l \in DOMAIN stats.languages : stats.languages[l] >= 1
        /\ \E V \in {VisitedFiles} :
              \E I \in {(V \ ExcludedAmong(V)) \ SensitiveFiles} :
                  \A l \in DOMAIN stats.languages :
                      stats.languages[l] =
                          Cardinality({ i \in I :
                              get_file_language(FILES[i].name) = l })

\* the walk stands between two files, having counted README.md and an app.py
\* it could not read
C24_Witness ==
    /\ pc = "walk"
    /\ todo # <<>>
    /\ ~read_ok(3)
    /\ stats.included_files >= 2
    /\ "Python" \in DOMAIN stats.languages
    /\ "Markdown" \in DOMAIN stats.languages

\* C25 as stated: every file with a FILE: section, full-content or sensitive,
\* has a file line in the rendered tree of the same run, and every file line
\* of the tree belongs to a file that is_excluded_file does not exclude.
C25_AsStated ==
    pc \in {"walk", "exit"} =>
        \E L \in {TreeOfReport}, F \in {SectionFiles(out)} :
            \E T \in {{ L[n].id : n \in { n \in 1..Len(L) : ~L[n].is_dir } }} :
                /\ \A n \in 1..Len(F) : F[n] \in T
                /\ \A i \in T :
                      ~is_excluded_file(FILES[i].name, <<>>, File(i),
                                        max_file_size).excluded

(***************************************************************************)
(* Properties of the dotenv files.                                         *)
(***************************************************************************)
\* the base name of file i begins with ".env"
IsDotenv(i) ==
    /\ Len(FILES[i].name) >= 4
    /\ SubSeq(FILES[i].name, 1, 4) = <<".", "e", "n", "v">>

\* C26 as stated: no file whose base name begins with ".env" is emitted with
\* a full-content section; every such file that is visited is sensitive or
\* excluded.
C26_AsStated ==
    pc \in {"walk", "exit"} =>
        /\ \A i \in WithPart("file") : ~IsDotenv(i)
        /\ \E V \in {{ i \in VisitedFiles : IsDotenv(i) }} :
              V \subseteq ExcludedAmong(V) \cup SensitiveFiles

====
